---------------------------- MODULE Spec2Model ----------------------------
(* Reservation engine of rest-ai: time-slot arithmetic, per-tenant capacity  *)
(* settings, the availability pipeline with its alternative searches, the    *)
(* localStorage reservation repository and the ReservationEngine dispatcher. *)
EXTENDS Integers, Sequences, FiniteSets, TLC

(***************************************************************************)
(* Values                                                                  *)
(***************************************************************************)

\* JavaScript's undefined / null for an optional field.
NoVal == "undefined"

\* Number.NaN, as returned by parseTimeToMinutes on malformed input.  Every
\* comparison with it is false, as in JavaScript.
NaN == -100000

IsFinite(x) == x # NaN

\* a < b, a <= b, a > b, a >= b on JavaScript numbers.
Lt(a, b) == IsFinite(a) /\ IsFinite(b) /\ a < b
Le(a, b) == IsFinite(a) /\ IsFinite(b) /\ a <= b
Gt(a, b) == Lt(b, a)
Ge(a, b) == Le(b, a)

\* a + b and a - b on JavaScript numbers (NaN is absorbing).
Plus(a, b) == IF IsFinite(a) /\ IsFinite(b) THEN a + b ELSE NaN
Minus(a, b) == IF IsFinite(a) /\ IsFinite(b) THEN a - b ELSE NaN

\* A time string.  hd is the number of hour digits (0: the text does not match
\* the pattern at all), md the number of minute digits (0: no ":MM" part).
TimeStr(hd, h, md, m) == [hd |-> hd, h |-> h, md |-> md, m |-> m]

\* The canonical zero-padded "HH:MM".
HHMM(h, m) == TimeStr(2, h, 2, m)

\* A text that is no time at all ("abc").
Garbage == TimeStr(0, 0, 0, 0)

(***************************************************************************)
(* timeSlots.ts                                                            *)
(***************************************************************************)

\* parseTimeToMinutes with the hour 24 let through: h > 24.
parseTimeToMinutesTo24(input) ==
  IF input.hd = 0 THEN NaN
  ELSE LET h == input.h
           mm == IF input.md = 0 THEN 0 ELSE input.m
       IN IF h < 0 \/ h > 24 THEN NaN
          ELSE IF mm < 0 \/ mm > 59 THEN NaN
          ELSE h * 60 + mm

parseTimeToMinutes(input) ==
  IF input.hd = 0 THEN NaN
  ELSE LET h == input.h
           mm == IF input.md = 0 THEN 0 ELSE input.m
       IN IF h < 0 \/ h > 23 THEN NaN
          ELSE IF mm < 0 \/ mm > 59 THEN NaN
          ELSE h * 60 + mm

Max(a, b) == IF a >= b THEN a ELSE b
Min(a, b) == IF a <= b THEN a ELSE b

minutesToHHMM(min) ==
  IF ~IsFinite(min) THEN HHMM(0, 0)
  ELSE LET clamped == Max(0, Min(24 * 60 - 1, min))
       IN HHMM(clamped \div 60, clamped % 60)

\* roundToSlot with "nearest" always taking the next slot: Math.floor(ratio) + 1.
roundToSlotNext(min, interval, mode) ==
  IF ~IsFinite(min) THEN NaN
  ELSE IF ~IsFinite(interval) \/ interval <= 0 THEN min
  ELSE LET slots == IF mode = "floor" THEN min \div interval
                    ELSE IF mode = "ceil" THEN -((-min) \div interval)
                    ELSE (min \div interval) + 1
       IN slots * interval

roundToSlot(min, interval, mode) ==
  IF ~IsFinite(min) THEN NaN
  ELSE IF ~IsFinite(interval) \/ interval <= 0 THEN min
  ELSE LET slots == IF mode = "floor" THEN min \div interval
                    ELSE IF mode = "ceil" THEN -((-min) \div interval)
                    ELSE (2 * min + interval) \div (2 * interval)
       IN slots * interval

(***************************************************************************)
(* Calendar dates: "YYYY-MM-DD" is <<y, m, d>>                             *)
(***************************************************************************)

IsLeap(y) == (y % 4 = 0 /\ y % 100 # 0) \/ y % 400 = 0

DaysInMonth(y, m) ==
  IF m = 2 THEN (IF IsLeap(y) THEN 29 ELSE 28)
  ELSE IF m \in {4, 6, 9, 11} THEN 30 ELSE 31

\* /^\d{4}-\d{2}-\d{2}$/ and the Date round trip of isValidISODate and
\* parseISODateLocal: new Date(y, m - 1, d) keeps y, m, d only for a real day.
isValidISODate(date) ==
  /\ date[1] \in 0..9999
  /\ date[2] \in 1..12
  /\ date[3] \in 1..DaysInMonth(date[1], date[2])

\* Date.setDate(getDate() + 1) followed by toISODateLocal.
NextDay(date) ==
  IF date[3] < DaysInMonth(date[1], date[2]) THEN <<date[1], date[2], date[3] + 1>>
  ELSE IF date[2] < 12 THEN <<date[1], date[2] + 1, 1>>
  ELSE <<date[1] + 1, 1, 1>>

RECURSIVE addDaysLocal(_, _)
addDaysLocal(date, days) ==
  IF days = 0 THEN date ELSE addDaysLocal(NextDay(date), days - 1)

\* a date before b, as calendar days
DateLt(a, b) ==
  \/ a[1] < b[1]
  \/ a[1] = b[1] /\ a[2] < b[2]
  \/ a[1] = b[1] /\ a[2] = b[2] /\ a[3] < b[3]

(***************************************************************************)
(* config.ts, settings.ts                                                  *)
(***************************************************************************)

Tenants == {"rA", "rB"}

RESERVATION_CONFIG ==
  [ totalCapacity |-> 30,
    maxPartySize |-> 8,
    standardDurationMin |-> 90,
    bufferMin |-> 10,
    slotIntervalMin |-> 30,
    slotRounding |-> "ceil",
    openingHours |-> << [start |-> HHMM(13, 0), end |-> HHMM(16, 0)],
                        [start |-> HHMM(20, 0), end |-> HHMM(23, 30)] >>,
    closedDates |-> { <<2026, 1, 1>>, <<2026, 12, 25>>, <<2026, 3, 19>> } ]

ConfigFields == DOMAIN RESERVATION_CONFIG

\* { ...RESERVATION_CONFIG, ...(stored ?? {}) }: a stored field wins, a field
\* that is not stored keeps its default.
MergeConfig(base, patch) ==
  [f \in ConfigFields |-> IF f \in DOMAIN patch THEN patch[f] ELSE base[f]]

\* SanitizeNum with the lowest value allowed replaced as well: v <= lo.
SanitizeNumAbove(v, lo, default) == IF ~IsFinite(v) \/ v <= lo THEN default ELSE v

\* if (!Number.isFinite(v) || v < lo) v = RESERVATION_CONFIG[...]
SanitizeNum(v, lo, default) == IF ~IsFinite(v) \/ v < lo THEN default ELSE v

\* The "basic sanitization" of getReservationSettings on the merged config.
SanitizeMerged(merged) ==
  [ merged EXCEPT
      !.totalCapacity = SanitizeNum(@, 0, RESERVATION_CONFIG.totalCapacity),
      !.maxPartySize = SanitizeNum(@, 1, RESERVATION_CONFIG.maxPartySize),
      !.standardDurationMin = SanitizeNum(@, 1, RESERVATION_CONFIG.standardDurationMin),
      !.bufferMin = SanitizeNum(@, 0, RESERVATION_CONFIG.bufferMin),
      !.slotIntervalMin = SanitizeNum(@, 1, RESERVATION_CONFIG.slotIntervalMin),
      !.slotRounding = IF @ \in {"ceil", "floor", "nearest"}
                       THEN @ ELSE RESERVATION_CONFIG.slotRounding ]

\* getReservationSettings on the stored overrides of one tenant.
Sanitize(stored) == SanitizeMerged(MergeConfig(RESERVATION_CONFIG, stored))

(***************************************************************************)
(* State                                                                   *)
(***************************************************************************)

VARIABLES
  db,        \* localStorage["resto_bot_reservations"]: the Reservation array
  settings,  \* localStorage["resto_bot_settings_v1:" + tenant], <<>> if unset
  last,      \* the last engine call: its action, context and EngineResponse
  tabs,      \* per browser tab, the create_reservation it is in the middle of
  listenersByRestaurant,  \* settings.ts: tenant -> the Set of its listeners
  handles,   \* the unsubscribe closures subscribeReservationSettings returned
  ticks,     \* per listener, the times it was called (setTick((t) => t + 1))
  restaurantConfig  \* per tenant, what RestaurantConfigRepository.patch stored

\* The state of the owner console: the listener registry of settings.ts, the
\* components that listen, and the RestaurantConfig kept in sync.
owner == <<listenersByRestaurant, handles, ticks, restaurantConfig>>

vars == <<db, settings, last, tabs, listenersByRestaurant, handles, ticks, restaurantConfig>>

\* A stored string that JSON.parse rejects.
Unparsable == [unparsable |-> TRUE]

\* loadRaw: null (no override) when nothing is stored or the stored string
\* does not parse.
loadRaw(raw) == IF "unparsable" \in DOMAIN raw THEN <<>> ELSE raw

getReservationSettings(st, restaurantId) == Sanitize(loadRaw(st[restaurantId]))

(***************************************************************************)
(* repository.ts (reads)                                                   *)
(***************************************************************************)

\* Active only
listByDate(d, restaurantId, date) ==
  LET Keep(r) == r.restaurant_id = restaurantId /\ r.date = date /\ r.status = "active"
  IN SelectSeq(d, Keep)

getByDate(d, restaurantId, date) == listByDate(d, restaurantId, date)

\* findIndex matching on the id alone.
findIndexAnyTenant(d, restaurantId, id) ==
  LET hits == {i \in 1..Len(d) : d[i].id = id}
  IN IF hits = {} THEN 0 ELSE CHOOSE i \in hits : \A j \in hits : i <= j

\* findIndex(r => r.restaurant_id === restaurantId && r.id === id); 0 for -1
findIndex(d, restaurantId, id) ==
  LET hits == {i \in 1..Len(d) : d[i].restaurant_id = restaurantId /\ d[i].id = id}
  IN IF hits = {} THEN 0 ELSE CHOOSE i \in hits : \A j \in hits : i <= j

(***************************************************************************)
(* availability.ts                                                         *)
(***************************************************************************)

\* The index of the first shift with start <= timeMin < end; 0 if none.
getShift(cfg, timeMin) ==
  LET hits == {i \in 1..Len(cfg.openingHours) :
                 /\ Ge(timeMin, parseTimeToMinutes(cfg.openingHours[i].start))
                 /\ Lt(timeMin, parseTimeToMinutes(cfg.openingHours[i].end))}
  IN IF hits = {} THEN 0 ELSE CHOOSE i \in hits : \A j \in hits : i <= j

\* Overlaps with <= for <: windows that only touch count as overlapping.
OverlapsTouching(reqStart, reqEnd, rStart, span) ==
  Le(reqStart, Plus(rStart, span)) /\ Ge(reqEnd, rStart)

\* Overlaps that sees only a reservation starting at the requested minute.
OverlapsSameStart(reqStart, reqEnd, rStart, span) == reqStart = rStart

\* reqStart < rEnd && reqEnd > rStart for a stored reservation starting at rStart
Overlaps(reqStart, reqEnd, rStart, span) ==
  Lt(reqStart, Plus(rStart, span)) /\ Gt(reqEnd, rStart)

\* The loop of checkCapacity over the reservations of the date.
RECURSIVE currentLoad(_, _, _, _, _)
currentLoad(existing, span, reqStart, reqEnd, excludeReservationId) ==
  IF existing = <<>> THEN 0
  ELSE currentLoad(Tail(existing), span, reqStart, reqEnd, excludeReservationId)
       + (IF excludeReservationId # 0 /\ Head(existing).id = excludeReservationId THEN 0
          ELSE IF Overlaps(reqStart, reqEnd, parseTimeToMinutes(Head(existing).time), span)
          THEN Head(existing).partySize
          ELSE 0)

\* checkCapacity that accepts whenever a seat is left: ... > 0.
checkCapacityAnySeat(d, restaurantId, cfg, date, reqStart, duration, partySize, excludeReservationId) ==
  cfg.totalCapacity
    - currentLoad(getByDate(d, restaurantId, date),
                  cfg.standardDurationMin + cfg.bufferMin,
                  reqStart, Plus(reqStart, duration + cfg.bufferMin),
                  excludeReservationId) > 0

checkCapacity(d, restaurantId, cfg, date, reqStart, duration, partySize, excludeReservationId) ==
  cfg.totalCapacity
    - currentLoad(getByDate(d, restaurantId, date),
                  cfg.standardDurationMin + cfg.bufferMin,
                  reqStart, Plus(reqStart, duration + cfg.bufferMin),
                  excludeReservationId) >= partySize

\* for (t = from; t <= to; t += step) push(t)
RECURSIVE SlotLoop(_, _, _)
SlotLoop(from, to, step) ==
  IF ~Le(from, to) THEN <<>> ELSE <<from>> \o SlotLoop(from + step, to, step)

Abs(x) == IF x < 0 THEN -x ELSE x

\* slice(0, n)
Take(s, n) == SubSeq(s, 1, Min(n, Len(s)))

\* The comparator of findSmartAlternatives with the later candidate first
\* among two equally distant ones.
SmartBeforeLaterFirst(a, b, reqTimeMin) ==
  IF Abs(a - reqTimeMin) # Abs(b - reqTimeMin)
  THEN Abs(a - reqTimeMin) < Abs(b - reqTimeMin)
  ELSE a > reqTimeMin

\* The comparator of findSmartAlternatives: distance first, then the earlier.
SmartBefore(a, b, reqTimeMin) ==
  IF Abs(a - reqTimeMin) # Abs(b - reqTimeMin)
  THEN Abs(a - reqTimeMin) < Abs(b - reqTimeMin)
  ELSE a < reqTimeMin

\* validCandidates.sort(...): a stable insertion sort with that comparator.
RECURSIVE InsertSmart(_, _, _)
InsertSmart(x, sorted, reqTimeMin) ==
  IF sorted = <<>> THEN <<x>>
  ELSE IF SmartBefore(x, Head(sorted), reqTimeMin) THEN <<x>> \o sorted
  ELSE <<Head(sorted)>> \o InsertSmart(x, Tail(sorted), reqTimeMin)

RECURSIVE SortSmart(_, _)
SortSmart(s, reqTimeMin) ==
  IF s = <<>> THEN <<>>
  ELSE InsertSmart(s[Len(s)], SortSmart(SubSeq(s, 1, Len(s) - 1), reqTimeMin), reqTimeMin)

\* .map(min => ({ date, time: minutesToHHMM(min) }))
AsAlternatives(date, mins) ==
  [i \in 1..Len(mins) |-> [date |-> date, time |-> minutesToHHMM(mins[i])]]

\* candidates.filter(t => checkCapacity(...))
WithSpace(d, cfg, restaurantId, date, candidates, partySize, excludeReservationId) ==
  LET HasSpace(t) == checkCapacity(d, restaurantId, cfg, date, t,
                                   cfg.standardDurationMin, partySize, excludeReservationId)
  IN SelectSeq(candidates, HasSpace)

\* findSmartAlternatives with the two nearest candidates taken before the
\* capacity filter instead of after it.
findSmartAlternativesSliceFirst(d, cfg, restaurantId, date, reqTimeMin, partySize, shift, excludeReservationId) ==
  LET NotReq(t) == t # reqTimeMin
  IN AsAlternatives(date,
       WithSpace(d, cfg, restaurantId, date,
                 Take(SortSmart(SelectSeq(SlotLoop(parseTimeToMinutes(shift.start),
                                                   Minus(parseTimeToMinutes(shift.end),
                                                         cfg.standardDurationMin),
                                                   cfg.slotIntervalMin),
                                          NotReq),
                                reqTimeMin), 2),
                 partySize, excludeReservationId))

findSmartAlternatives(d, cfg, restaurantId, date, reqTimeMin, partySize, shift, excludeReservationId) ==
  LET NotReq(t) == t # reqTimeMin
  IN AsAlternatives(date,
       Take(SortSmart(
              WithSpace(d, cfg, restaurantId, date,
                        SelectSeq(SlotLoop(parseTimeToMinutes(shift.start),
                                           Minus(parseTimeToMinutes(shift.end),
                                                 cfg.standardDurationMin),
                                           cfg.slotIntervalMin),
                                  NotReq),
                        partySize, excludeReservationId),
              reqTimeMin), 2))

\* TryNextDay without the closed dates skipped.
TryNextDayAnyDate(d, cfg, restaurantId, nextDate, timeMin, partySize, excludeReservationId, alternatives) ==
  IF getShift(cfg, timeMin) = 0 THEN alternatives
  ELSE IF checkCapacity(d, restaurantId, cfg, nextDate, timeMin,
                        cfg.standardDurationMin, partySize, excludeReservationId)
  THEN Append(alternatives, [date |-> nextDate, time |-> minutesToHHMM(timeMin)])
  ELSE alternatives

\* One round of the loop of findNextDayAlternatives, on the day nextDate.
TryNextDay(d, cfg, restaurantId, nextDate, timeMin, partySize, excludeReservationId, alternatives) ==
  IF nextDate \in cfg.closedDates THEN alternatives
  ELSE IF getShift(cfg, timeMin) = 0 THEN alternatives
  ELSE IF checkCapacity(d, restaurantId, cfg, nextDate, timeMin,
                        cfg.standardDurationMin, partySize, excludeReservationId)
  THEN Append(alternatives, [date |-> nextDate, time |-> minutesToHHMM(timeMin)])
  ELSE alternatives

\* for (i = 0; i < 7; i++) of findNextDayAlternatives; current is the day
\* before the one tried next.
RECURSIVE NextDayLoop(_, _, _, _, _, _, _, _, _)
NextDayLoop(d, cfg, restaurantId, current, i, timeMin, partySize, excludeReservationId, alternatives) ==
  IF i >= 7 \/ Len(alternatives) >= 2 THEN alternatives
  ELSE NextDayLoop(d, cfg, restaurantId, NextDay(current), i + 1, timeMin, partySize,
                   excludeReservationId,
                   TryNextDay(d, cfg, restaurantId, NextDay(current), timeMin, partySize,
                              excludeReservationId, alternatives))

findNextDayAlternatives(d, cfg, restaurantId, startDate, timeMin, partySize, excludeReservationId) ==
  IF ~isValidISODate(startDate) THEN <<>>
  ELSE NextDayLoop(d, cfg, restaurantId, startDate, 0, timeMin, partySize,
                   excludeReservationId, <<>>)

\* slots.sort((a, b) => a - b)
RECURSIVE InsertNum(_, _)
InsertNum(x, sorted) ==
  IF sorted = <<>> THEN <<x>>
  ELSE IF x < Head(sorted) THEN <<x>> \o sorted
  ELSE <<Head(sorted)>> \o InsertNum(x, Tail(sorted))

RECURSIVE SortNum(_)
SortNum(s) ==
  IF s = <<>> THEN <<>> ELSE InsertNum(s[Len(s)], SortNum(SubSeq(s, 1, Len(s) - 1)))

\* Math.max(a, b)
MathMax(a, b) == IF IsFinite(a) /\ IsFinite(b) THEN Max(a, b) ELSE NaN

\* The inner loop of getAvailableSlotsOnDate for one shift; minStartMin is
\* NaN when the caller passes undefined.
OneShiftSlots(d, cfg, restaurantId, date, partySize, shiftStart, latestStart, minStartMin, excludeReservationId) ==
  WithSpace(d, cfg, restaurantId, date,
            SlotLoop(MathMax(shiftStart,
                             IF IsFinite(minStartMin) THEN minStartMin ELSE shiftStart),
                     latestStart, cfg.slotIntervalMin),
            partySize, excludeReservationId)

\* for (const shift of cfg.openingHours), from the k-th shift on
RECURSIVE ShiftSlots(_, _, _, _, _, _, _, _)
ShiftSlots(d, cfg, restaurantId, date, partySize, minStartMin, excludeReservationId, k) ==
  IF k > Len(cfg.openingHours) THEN <<>>
  ELSE OneShiftSlots(d, cfg, restaurantId, date, partySize,
                     parseTimeToMinutes(cfg.openingHours[k].start),
                     Minus(parseTimeToMinutes(cfg.openingHours[k].end),
                           cfg.standardDurationMin),
                     minStartMin, excludeReservationId)
         \o ShiftSlots(d, cfg, restaurantId, date, partySize, minStartMin,
                       excludeReservationId, k + 1)

getAvailableSlotsOnDate(d, cfg, restaurantId, date, partySize, minStartMin, excludeReservationId) ==
  SortNum(ShiftSlots(d, cfg, restaurantId, date, partySize, minStartMin,
                     excludeReservationId, 1))

\* alternatives.push for each slot until the list holds 2
RECURSIVE PushSlots(_, _, _)
PushSlots(alternatives, date, slots) ==
  IF slots = <<>> \/ Len(alternatives) >= 2 THEN alternatives
  ELSE PushSlots(Append(alternatives, [date |-> date, time |-> minutesToHHMM(Head(slots))]),
                 date, Tail(slots))

\* One round of the later-days loop of findOutOfHoursAlternatives.
TryLaterDay(d, cfg, restaurantId, nextDate, partySize, excludeReservationId, alternatives) ==
  IF nextDate \in cfg.closedDates THEN alternatives
  ELSE PushSlots(alternatives, nextDate,
                 getAvailableSlotsOnDate(d, cfg, restaurantId, nextDate, partySize,
                                         NaN, excludeReservationId))

\* for (i = 1; i <= 7 && alternatives.length < 2; i++)
RECURSIVE LaterDaysLoop(_, _, _, _, _, _, _, _)
LaterDaysLoop(d, cfg, restaurantId, baseDate, i, partySize, excludeReservationId, alternatives) ==
  IF i > 7 \/ Len(alternatives) >= 2 THEN alternatives
  ELSE LaterDaysLoop(d, cfg, restaurantId, baseDate, i + 1, partySize,
                     excludeReservationId,
                     TryLaterDay(d, cfg, restaurantId, addDaysLocal(baseDate, i), partySize,
                                 excludeReservationId, alternatives))

\* AfterSameDay with the later days scanned only when the requested date
\* gave no slot at all.
AfterSameDayOnlyIfNone(d, cfg, restaurantId, date, partySize, excludeReservationId, sameDay) ==
  IF Len(sameDay) >= 1 THEN sameDay
  ELSE LaterDaysLoop(d, cfg, restaurantId, date, 1, partySize, excludeReservationId, sameDay)

\* findOutOfHoursAlternatives once the same-day slots are pushed
AfterSameDay(d, cfg, restaurantId, date, partySize, excludeReservationId, sameDay) ==
  IF Len(sameDay) >= 2 THEN sameDay
  ELSE LaterDaysLoop(d, cfg, restaurantId, date, 1, partySize, excludeReservationId, sameDay)

findOutOfHoursAlternatives(d, cfg, restaurantId, date, requestedMin, partySize, excludeReservationId) ==
  IF ~isValidISODate(date) THEN <<>>
  ELSE AfterSameDay(d, cfg, restaurantId, date, partySize, excludeReservationId,
                    PushSlots(<<>>, date,
                              getAvailableSlotsOnDate(d, cfg, restaurantId, date, partySize,
                                                      requestedMin, excludeReservationId)))

\* normalized_time absent
NoTime == TimeStr(-1, 0, 0, 0)

AvailabilityResult(status, reason, alternatives, normalized_time) ==
  [status |-> status, reason |-> reason, alternatives |-> alternatives,
   normalized_time |-> normalized_time]

\* rawHHMM && roundedHHMM && rawHHMM !== roundedHHMM ? roundedHHMM : undefined
normalizedTimeOf(rawMin, roundedMin) ==
  IF IsFinite(rawMin) /\ IsFinite(roundedMin)
     /\ minutesToHHMM(rawMin) # minutesToHHMM(roundedMin)
  THEN minutesToHHMM(roundedMin) ELSE NoTime

\* checkRules with the party size validated before the closed dates.
checkRulesPartyFirst(d, cfg, restaurantId, date, timeMin, partySize, excludeReservationId, normalized_time, activeShift) ==
  IF partySize > cfg.maxPartySize
  THEN AvailabilityResult("not_available", "max_party", <<>>, normalized_time)
  ELSE IF date \in cfg.closedDates
  THEN AvailabilityResult("not_available", "closed",
         findNextDayAlternatives(d, cfg, restaurantId, date, timeMin, partySize,
                                 excludeReservationId),
         normalized_time)
  ELSE IF activeShift = 0
  THEN AvailabilityResult("not_available", "out_of_hours",
         findOutOfHoursAlternatives(d, cfg, restaurantId, date, timeMin, partySize,
                                    excludeReservationId),
         normalized_time)
  ELSE IF timeMin + cfg.standardDurationMin
            > parseTimeToMinutes(cfg.openingHours[activeShift].end)
  THEN AvailabilityResult("not_available", "turn_end",
         findSmartAlternatives(d, cfg, restaurantId, date, timeMin, partySize,
                               cfg.openingHours[activeShift], excludeReservationId),
         normalized_time)
  ELSE IF checkCapacity(d, restaurantId, cfg, date, timeMin, cfg.standardDurationMin,
                        partySize, excludeReservationId)
  THEN AvailabilityResult("available", NoVal, <<>>, normalized_time)
  ELSE AvailabilityResult("not_available", "capacity",
         findSmartAlternatives(d, cfg, restaurantId, date, timeMin, partySize,
                               cfg.openingHours[activeShift], excludeReservationId),
         normalized_time)

\* The five validations of AvailabilityService.check, activeShift being the
\* index getShift found (0: none).
checkRules(d, cfg, restaurantId, date, timeMin, partySize, excludeReservationId, normalized_time, activeShift) ==
  IF date \in cfg.closedDates
  THEN AvailabilityResult("not_available", "closed",
         findNextDayAlternatives(d, cfg, restaurantId, date, timeMin, partySize,
                                 excludeReservationId),
         normalized_time)
  ELSE IF partySize > cfg.maxPartySize
  THEN AvailabilityResult("not_available", "max_party", <<>>, normalized_time)
  ELSE IF activeShift = 0
  THEN AvailabilityResult("not_available", "out_of_hours",
         findOutOfHoursAlternatives(d, cfg, restaurantId, date, timeMin, partySize,
                                    excludeReservationId),
         normalized_time)
  ELSE IF timeMin + cfg.standardDurationMin
            > parseTimeToMinutes(cfg.openingHours[activeShift].end)
  THEN AvailabilityResult("not_available", "turn_end",
         findSmartAlternatives(d, cfg, restaurantId, date, timeMin, partySize,
                               cfg.openingHours[activeShift], excludeReservationId),
         normalized_time)
  ELSE IF checkCapacity(d, restaurantId, cfg, date, timeMin, cfg.standardDurationMin,
                        partySize, excludeReservationId)
  THEN AvailabilityResult("available", NoVal, <<>>, normalized_time)
  ELSE AvailabilityResult("not_available", "capacity",
         findSmartAlternatives(d, cfg, restaurantId, date, timeMin, partySize,
                               cfg.openingHours[activeShift], excludeReservationId),
         normalized_time)

\* checkRounded with the opening hours validated before the party size.
checkRoundedHoursFirst(d, cfg, restaurantId, date, rawMin, roundedMin, partySize, excludeReservationId) ==
  IF date \notin cfg.closedDates /\ getShift(cfg, roundedMin) = 0
  THEN AvailabilityResult("not_available", "out_of_hours",
         findOutOfHoursAlternatives(d, cfg, restaurantId, date, roundedMin, partySize,
                                    excludeReservationId),
         normalizedTimeOf(rawMin, roundedMin))
  ELSE checkRules(d, cfg, restaurantId, date, roundedMin, partySize, excludeReservationId,
                  normalizedTimeOf(rawMin, roundedMin), getShift(cfg, roundedMin))

\* AvailabilityService.check once the time is parsed and rounded
checkRounded(d, cfg, restaurantId, date, rawMin, roundedMin, partySize, excludeReservationId) ==
  checkRules(d, cfg, restaurantId, date, roundedMin, partySize, excludeReservationId,
             normalizedTimeOf(rawMin, roundedMin), getShift(cfg, roundedMin))

\* AvailabilityService.check under the settings cfg
checkWith(d, cfg, restaurantId, date, rawMin, partySize, excludeReservationId) ==
  checkRounded(d, cfg, restaurantId, date, rawMin,
               roundToSlot(rawMin, cfg.slotIntervalMin, cfg.slotRounding),
               partySize, excludeReservationId)

\* AvailabilityService.check
check(d, st, restaurantId, date, time, partySize, excludeReservationId) ==
  checkWith(d, getReservationSettings(st, restaurantId), restaurantId, date,
            parseTimeToMinutes(time), partySize, excludeReservationId)

(***************************************************************************)
(* tableAssignment.ts                                                      *)
(***************************************************************************)

\* A RestaurantTable: kind is "table" or "stool", status one of free,
\* occupied, reserved, blocked.
RestaurantTable(id, restaurantId, name, capacity, kind, status) ==
  [ id |-> id, restaurant_id |-> restaurantId, name |-> name, capacity |-> capacity,
    kind |-> kind, status |-> status ]

\* null as a Window
NoWindow == <<>>

isOverlapping(a, b) == a.startMin < b.endMin /\ a.endMin > b.startMin

toWindow(timeHHMM, durationMin, bufferMin) ==
  IF ~IsFinite(parseTimeToMinutes(timeHHMM)) THEN NoWindow
  ELSE [ startMin |-> parseTimeToMinutes(timeHHMM),
         endMin |-> parseTimeToMinutes(timeHHMM) + durationMin + bufferMin ]

\* t.kind === "stool" ? 1 : t.capacity
Seats(t) == IF t.kind = "stool" THEN 1 ELSE t.capacity

\* The names of the tables in the order of String.prototype.localeCompare.
NameOrder == <<"Barra 1", "Mesa 1", "Mesa 2", "Mesa 3", "Terraza 1">>

NameRank(name) == CHOOSE i \in 1..Len(NameOrder) : NameOrder[i] = name

\* TableBefore by the capacity alone: ca - cb is negative.
TableBeforeByCapacity(a, b) == Seats(a) < Seats(b)

\* ca - cb || a.name.localeCompare(b.name) is negative
TableBefore(a, b) ==
  IF Seats(a) # Seats(b) THEN Seats(a) < Seats(b) ELSE NameRank(a.name) < NameRank(b.name)

\* .sort(...) of the available tables: a stable insertion sort.
RECURSIVE InsertTable(_, _)
InsertTable(x, sorted) ==
  IF sorted = <<>> THEN <<x>>
  ELSE IF TableBefore(x, Head(sorted)) THEN <<x>> \o sorted
  ELSE <<Head(sorted)>> \o InsertTable(x, Tail(sorted))

RECURSIVE SortTables(_)
SortTables(s) ==
  IF s = <<>> THEN <<>>
  ELSE InsertTable(s[Len(s)], SortTables(SubSeq(s, 1, Len(s) - 1)))

\* The loop over the relevant reservations in the last filter: TRUE when one
\* of them holds the table t over a window that overlaps the target.
RECURSIVE TableTaken(_, _, _, _, _)
TableTaken(relevant, t, target, cfg, excludeReservationId) ==
  IF relevant = <<>> THEN FALSE
  ELSE IF excludeReservationId # 0 /\ Head(relevant).id = excludeReservationId
  THEN TableTaken(Tail(relevant), t, target, cfg, excludeReservationId)
  ELSE IF Head(relevant).table_id = NoVal \/ Head(relevant).table_id # t.id
  THEN TableTaken(Tail(relevant), t, target, cfg, excludeReservationId)
  ELSE IF toWindow(Head(relevant).time, cfg.standardDurationMin, cfg.bufferMin) = NoWindow
  THEN TableTaken(Tail(relevant), t, target, cfg, excludeReservationId)
  ELSE IF isOverlapping(target,
            toWindow(Head(relevant).time, cfg.standardDurationMin, cfg.bufferMin))
  THEN TRUE
  ELSE TableTaken(Tail(relevant), t, target, cfg, excludeReservationId)

\* listAvailableTablesForReservation, the target window in hand
AvailableFor(cfg, restaurantId, date, partySize, tables, reservations, excludeReservationId, target) ==
  LET Relevant(r) == r.restaurant_id = restaurantId /\ r.date = date /\ r.status = "active"
      Fits(t) == /\ t.restaurant_id = restaurantId
                 /\ t.status # "blocked"
                 /\ Seats(t) >= partySize
                 /\ ~TableTaken(SelectSeq(reservations, Relevant), t, target, cfg,
                                excludeReservationId)
  IN IF target = NoWindow THEN <<>> ELSE SortTables(SelectSeq(tables, Fits))

\* listAvailableTablesForReservation, the settings read
AvailableWith(cfg, restaurantId, date, time, partySize, tables, reservations, excludeReservationId) ==
  IF ~IsFinite(parseTimeToMinutes(time)) THEN <<>>
  ELSE AvailableFor(cfg, restaurantId, date, partySize, tables, reservations,
                    excludeReservationId,
                    toWindow(minutesToHHMM(roundToSlot(parseTimeToMinutes(time),
                                                       cfg.slotIntervalMin, cfg.slotRounding)),
                             cfg.standardDurationMin, cfg.bufferMin))

listAvailableTablesForReservation(st, restaurantId, date, time, partySize, tables, reservations, excludeReservationId) ==
  AvailableWith(getReservationSettings(st, restaurantId), restaurantId, date, time,
                partySize, tables, reservations, excludeReservationId)

\* null as a RestaurantTable
NoTable == <<>>

\* avail[0] ?? null
FirstOrNone(avail) == IF avail = <<>> THEN NoTable ELSE avail[1]

pickTableForReservation(st, restaurantId, date, time, partySize, tables, reservations, excludeReservationId) ==
  FirstOrNone(listAvailableTablesForReservation(st, restaurantId, date, time, partySize,
                                                tables, reservations, excludeReservationId))

\* The comparator of suggestAlternativeTimesByTables: da - db, then a - b.
NearBefore(a, b, reqMin) ==
  IF Abs(a - reqMin) # Abs(b - reqMin) THEN Abs(a - reqMin) < Abs(b - reqMin) ELSE a < b

\* candidates.sort(...): a stable insertion sort with that comparator.
RECURSIVE InsertNear(_, _, _)
InsertNear(x, sorted, reqMin) ==
  IF sorted = <<>> THEN <<x>>
  ELSE IF NearBefore(x, Head(sorted), reqMin) THEN <<x>> \o sorted
  ELSE <<Head(sorted)>> \o InsertNear(x, Tail(sorted), reqMin)

RECURSIVE SortNear(_, _)
SortNear(s, reqMin) ==
  IF s = <<>> THEN <<>>
  ELSE InsertNear(s[Len(s)], SortNear(SubSeq(s, 1, Len(s) - 1), reqMin), reqMin)

\* for (const t of candidates) { if (out.length >= limit) break; ... }
RECURSIVE SuggestLoop(_, _, _, _, _, _, _, _)
SuggestLoop(st, restaurantId, date, partySize, tables, reservations, limit, candidates) ==
  IF candidates = <<>> \/ limit <= 0 THEN <<>>
  ELSE IF pickTableForReservation(st, restaurantId, date, minutesToHHMM(Head(candidates)),
                                  partySize, tables, reservations, 0) # NoTable
  THEN <<[date |-> date, time |-> minutesToHHMM(Head(candidates))]>>
         \o SuggestLoop(st, restaurantId, date, partySize, tables, reservations, limit - 1,
                        Tail(candidates))
  ELSE SuggestLoop(st, restaurantId, date, partySize, tables, reservations, limit,
                   Tail(candidates))

\* suggestAlternativeTimesByTables, the active shift chosen
SuggestInShift(st, cfg, restaurantId, date, partySize, tables, reservations, limit, reqMin, activeShift) ==
  LET NotReq(t) == t # reqMin
  IN IF ~IsFinite(parseTimeToMinutes(activeShift.start))
        \/ ~IsFinite(parseTimeToMinutes(activeShift.end))
     THEN <<>>
     ELSE SuggestLoop(st, restaurantId, date, partySize, tables, reservations, limit,
            SortNear(SelectSeq(SlotLoop(parseTimeToMinutes(activeShift.start),
                                        parseTimeToMinutes(activeShift.end)
                                          - cfg.standardDurationMin,
                                        cfg.slotIntervalMin),
                               NotReq),
                     reqMin))

\* suggestAlternativeTimesByTables, the requested time rounded to its slot:
\* timeInShift ?? shifts[0] ?? null
SuggestRounded(st, cfg, restaurantId, date, partySize, tables, reservations, limit, reqMin) ==
  IF getShift(cfg, reqMin) # 0
  THEN SuggestInShift(st, cfg, restaurantId, date, partySize, tables, reservations, limit,
                      reqMin, cfg.openingHours[getShift(cfg, reqMin)])
  ELSE IF Len(cfg.openingHours) > 0
  THEN SuggestInShift(st, cfg, restaurantId, date, partySize, tables, reservations, limit,
                      reqMin, cfg.openingHours[1])
  ELSE <<>>

\* suggestAlternativeTimesByTables, the settings read
SuggestWith(st, cfg, restaurantId, date, time, partySize, tables, reservations, limit) ==
  IF ~IsFinite(parseTimeToMinutes(time)) THEN <<>>
  ELSE SuggestRounded(st, cfg, restaurantId, date, partySize, tables, reservations, limit,
                      roundToSlot(parseTimeToMinutes(time), cfg.slotIntervalMin,
                                  cfg.slotRounding))

suggestAlternativeTimesByTables(st, restaurantId, date, time, partySize, tables, reservations, limit) ==
  SuggestWith(st, getReservationSettings(st, restaurantId), restaurantId, date, time,
              partySize, tables, reservations, limit)

(***************************************************************************)
(* repository.ts (writes, getByPhone)                                      *)
(***************************************************************************)

\* generateId(): an id no stored record has.  Records are never removed, so
\* the position of the new record is fresh.  createdAt is the same tick.
generateId(d) == Len(d) + 1

\* ReservationRepository.create: loadDB, push, saveDB
RepoCreate(d, restaurantId, data) ==
  Append(d, [ id |-> generateId(d),
              restaurant_id |-> restaurantId,
              name |-> data.name,
              phone |-> data.phone,
              date |-> data.date,
              time |-> data.time,
              partySize |-> data.partySize,
              notes |-> data.notes,
              table_id |-> data.table_id,
              status |-> "active",
              createdAt |-> generateId(d) ])

\* db[idx] = { ...db[idx], ...updates }.  The engine always passes the five
\* keys, so each of them, undefined included, replaces the stored value.
RepoUpdateAt(d, idx, updates) ==
  IF idx = 0 THEN d
  ELSE [d EXCEPT ![idx] = [ @ EXCEPT !.date = updates.date,
                                     !.time = updates.time,
                                     !.partySize = updates.partySize,
                                     !.table_id = updates.table_id,
                                     !.notes = updates.notes ]]

\* ReservationRepository.update
RepoUpdate(d, restaurantId, id, updates) ==
  RepoUpdateAt(d, findIndex(d, restaurantId, id), updates)

\* RepoCancelAt with the record spliced out of the array.
RepoCancelAtRemove(d, idx) ==
  IF idx = 0 THEN d ELSE SubSeq(d, 1, idx - 1) \o SubSeq(d, idx + 1, Len(d))

\* db[idx].status = 'cancelled'
RepoCancelAt(d, idx) ==
  IF idx = 0 THEN d ELSE [d EXCEPT ![idx].status = "cancelled"]

\* ReservationRepository.cancel
RepoCancel(d, restaurantId, id) == RepoCancelAt(d, findIndex(d, restaurantId, id))

\* An instant: a calendar date and the minute of the day.
Instant(date, min) == [date |-> date, min |-> min]

\* new Date(`${r.date}T${r.time}`).getTime() of a before that of b
InstantLt(a, b) == DateLt(a.date, b.date) \/ (a.date = b.date /\ a.min < b.min)

ResInstant(r) == Instant(r.date, parseTimeToMinutes(r.time))

RECURSIVE InsertByInstant(_, _)
InsertByInstant(x, sorted) ==
  IF sorted = <<>> THEN <<x>>
  ELSE IF InstantLt(ResInstant(x), ResInstant(Head(sorted))) THEN <<x>> \o sorted
  ELSE <<Head(sorted)>> \o InsertByInstant(x, Tail(sorted))

RECURSIVE SortByInstant(_)
SortByInstant(s) ==
  IF s = <<>> THEN <<>>
  ELSE InsertByInstant(s[Len(s)], SortByInstant(SubSeq(s, 1, Len(s) - 1)))

\* getByPhone without the final sort: the records in the order of the store.
getByPhoneUnsorted(d, restaurantId, phone, now) ==
  LET Mine(r) == r.restaurant_id = restaurantId /\ r.phone = phone /\ r.status = "active"
      Future(r) == IsFinite(parseTimeToMinutes(r.time)) /\ ~InstantLt(ResInstant(r), now)
  IN SelectSeq(SelectSeq(d, Mine), Future)

getByPhone(d, restaurantId, phone, now) ==
  LET Mine(r) == r.restaurant_id = restaurantId /\ r.phone = phone /\ r.status = "active"
      Future(r) == IsFinite(parseTimeToMinutes(r.time)) /\ ~InstantLt(ResInstant(r), now)
  IN SortByInstant(SelectSeq(SelectSeq(d, Mine), Future))

(***************************************************************************)
(* engine.ts                                                               *)
(***************************************************************************)

\* A date text.  kind "iso": YYYY-MM-DD with the digits y, m, d; "dmy": D/M or
\* D/M/Y (y = -1: no year); "word": any other text; "none": null or "".
DateText(kind, y, m, d, word) == [kind |-> kind, y |-> y, m |-> m, d |-> d, word |-> word]
IsoText(date) == DateText("iso", date[1], date[2], date[3], "")
DmyText(d, m, y) == DateText("dmy", y, m, d, "")
WordText(w) == DateText("word", 0, 0, 0, w)
NoDateText == DateText("none", 0, 0, 0, "")

\* null as a date
NoDate == <<>>

\* raw.toLowerCase().normalize("NFD") without the combining marks
\* U+0300..U+036F.  "n~" stands for the letter n with a tilde.
LowerNoAccents(w) ==
  CASE w = "Hoy" -> "hoy"
    [] w = "Today" -> "today"
    [] w = "man~ana" -> "manana"
    [] w = "Man~ana" -> "manana"
    [] w = "pasado man~ana" -> "pasado manana"
    [] OTHER -> w

\* The relative words of normalizeDateInput
RelativeDate(normalized, now) ==
  IF normalized \in {"hoy", "today"} THEN now.date
  ELSE IF normalized \in {"manana", "tomorrow"} THEN addDaysLocal(now.date, 1)
  ELSE IF normalized \in {"pasado manana", "day after tomorrow"}
  THEN addDaysLocal(now.date, 2)
  ELSE NoDate

\* if (year < 100) year += 2000; the candidate must match \d{4}-\d{2}-\d{2}
DmyDate(year, month, day) ==
  IF year >= 1000 /\ isValidISODate(<<year, month, day>>)
  THEN <<year, month, day>> ELSE NoDate

normalizeDateInput(value, now) ==
  IF value.kind = "iso"
  THEN IF isValidISODate(<<value.y, value.m, value.d>>)
       THEN <<value.y, value.m, value.d>> ELSE NoDate
  ELSE IF value.kind = "word" THEN RelativeDate(LowerNoAccents(value.word), now)
  ELSE IF value.kind = "dmy"
  THEN IF value.y = -1 THEN DmyDate(now.date[1], value.m, value.d)
       ELSE IF value.y < 100 THEN DmyDate(value.y + 2000, value.m, value.d)
       ELSE DmyDate(value.y, value.m, value.d)
  ELSE NoDate

EngineResponse(success, availability, reason, alternatives, normalized_time, message, data) ==
  [ success |-> success, availability |-> availability, reason |-> reason,
    alternatives |-> alternatives, normalized_time |-> normalized_time,
    message |-> message, data |-> data ]

\* { success: false, availability?, message? }
Failure(availability, message) ==
  EngineResponse(FALSE, availability, NoVal, <<>>, NoTime, message, <<>>)

\* { success: false, availability: 'not_available', reason, alternatives, ... }
Rejected(chk, message) ==
  EngineResponse(FALSE, "not_available", chk.reason, chk.alternatives,
                 chk.normalized_time, message, <<>>)

\* What one execute call does: its response, the store it leaves and whether
\* it called AvailabilityService.check.
Outcome(resp, d, checked) == [resp |-> resp, db |-> d, checked |-> checked]

\* case 'check_availability', the result of check in hand
CheckResponse(result) ==
  EngineResponse(TRUE,
                 IF result.status = "available" THEN "available" ELSE "not_available",
                 result.reason, result.alternatives, result.normalized_time, NoVal, <<>>)

\* case 'check_availability', the date normalized
CheckNormalized(d, st, restaurantId, payload, normalizedDate) ==
  IF normalizedDate = NoDate
  THEN Outcome(Failure("unknown", "Invalid date format."), d, FALSE)
  ELSE Outcome(CheckResponse(check(d, st, restaurantId, normalizedDate, payload.time,
                                   payload.party_size, 0)), d, TRUE)

ExecCheckAvailability(d, st, restaurantId, now, payload) ==
  IF payload.date.kind = "none" \/ payload.time = NoTime \/ payload.party_size = 0
  THEN Outcome(Failure("unknown", NoVal), d, FALSE)
  ELSE CheckNormalized(d, st, restaurantId, payload, normalizeDateInput(payload.date, now))

\* case 'create_reservation', after ReservationRepository.create
CreateWritten(d2, chk) ==
  Outcome(EngineResponse(TRUE, "available", NoVal, <<>>, chk.normalized_time, NoVal,
                         <<d2[Len(d2)]>>), d2, TRUE)

\* CreateChecked with the record written before the result of the check is
\* looked at.
CreateCheckedWriteFirst(d, restaurantId, finalPhone, payload, normalizedDate, normalizedTime, chk) ==
  IF chk.status # "available"
  THEN Outcome(Rejected(chk, "Availability changed during booking."),
               RepoCreate(d, restaurantId,
                 [ date |-> normalizedDate, time |-> normalizedTime,
                   partySize |-> payload.party_size, name |-> payload.name,
                   phone |-> finalPhone, table_id |-> payload.table_id,
                   notes |-> payload.notes ]), TRUE)
  ELSE CreateWritten(RepoCreate(d, restaurantId,
                       [ date |-> normalizedDate, time |-> normalizedTime,
                         partySize |-> payload.party_size, name |-> payload.name,
                         phone |-> finalPhone, table_id |-> payload.table_id,
                         notes |-> payload.notes ]), chk)

\* case 'create_reservation', the availability re-checked
CreateChecked(d, restaurantId, finalPhone, payload, normalizedDate, normalizedTime, chk) ==
  IF chk.status # "available"
  THEN Outcome(Rejected(chk, "Availability changed during booking."), d, TRUE)
  ELSE CreateWritten(RepoCreate(d, restaurantId,
                       [ date |-> normalizedDate, time |-> normalizedTime,
                         partySize |-> payload.party_size, name |-> payload.name,
                         phone |-> finalPhone, table_id |-> payload.table_id,
                         notes |-> payload.notes ]), chk)

\* case 'create_reservation', the time rounded to its slot
CreateRounded(d, st, restaurantId, finalPhone, payload, normalizedDate, roundedMin) ==
  IF ~IsFinite(roundedMin)
  THEN Outcome(Failure("unknown", "Invalid normalized time."), d, FALSE)
  ELSE CreateChecked(d, restaurantId, finalPhone, payload, normalizedDate,
                     minutesToHHMM(roundedMin),
                     check(d, st, restaurantId, normalizedDate, minutesToHHMM(roundedMin),
                           payload.party_size, 0))

\* case 'create_reservation', the date normalized and the time parsed
CreateNormalized(d, st, cfg, restaurantId, finalPhone, payload, normalizedDate, rawMin) ==
  IF normalizedDate = NoDate
  THEN Outcome(Failure("unknown", "Invalid date format."), d, FALSE)
  ELSE IF ~IsFinite(rawMin)
  THEN Outcome(Failure("unknown", "Invalid time format."), d, FALSE)
  ELSE CreateRounded(d, st, restaurantId, finalPhone, payload, normalizedDate,
                     roundToSlot(rawMin, cfg.slotIntervalMin, cfg.slotRounding))

ExecCreateReservation(d, st, restaurantId, userPhone, now, payload) ==
  IF payload.date.kind = "none" \/ payload.time = NoTime \/ payload.party_size = 0
     \/ payload.name = ""
  THEN Outcome(Failure("unknown", "Missing required reservation fields."), d, FALSE)
  ELSE CreateNormalized(d, st, getReservationSettings(st, restaurantId), restaurantId,
                        IF payload.phone # NoVal THEN payload.phone ELSE userPhone,
                        payload, normalizeDateInput(payload.date, now),
                        parseTimeToMinutes(payload.time))

\* case 'update_reservation', after ReservationRepository.update
UpdateWritten(d2, idx, needsCheck) ==
  Outcome(EngineResponse(TRUE, NoVal, NoVal, <<>>, NoTime, NoVal, <<d2[idx]>>),
          d2, needsCheck)

\* case 'update_reservation', the check done if it was needed
UpdateChecked(d, restaurantId, idx, changes, newDate, normalizedTime, newSize, needsCheck, chk) ==
  IF needsCheck /\ chk.status # "available"
  THEN Outcome(Rejected(chk, NoVal), d, TRUE)
  ELSE UpdateWritten(RepoUpdate(d, restaurantId, d[idx].id,
                       [ date |-> newDate, time |-> normalizedTime, partySize |-> newSize,
                         table_id |-> changes.table_id, notes |-> changes.notes ]),
                     idx, needsCheck)

\* UpdateRounded with the check called without the id of the reservation
\* being updated.
UpdateRoundedNoExclude(d, st, restaurantId, idx, changes, newDate, newTime, newSize, roundedMin) ==
  IF ~IsFinite(roundedMin)
  THEN Outcome(Failure(NoVal, "Invalid normalized time"), d, FALSE)
  ELSE UpdateChecked(d, restaurantId, idx, changes, newDate, minutesToHHMM(roundedMin), newSize,
                     newDate # d[idx].date \/ newTime # d[idx].time
                       \/ newSize # d[idx].partySize,
                     check(d, st, restaurantId, newDate, minutesToHHMM(roundedMin),
                           newSize, 0))

\* UpdateRounded with the check run on every update.
UpdateRoundedAlwaysCheck(d, st, restaurantId, idx, changes, newDate, newTime, newSize, roundedMin) ==
  IF ~IsFinite(roundedMin)
  THEN Outcome(Failure(NoVal, "Invalid normalized time"), d, FALSE)
  ELSE UpdateChecked(d, restaurantId, idx, changes, newDate, minutesToHHMM(roundedMin), newSize,
                     TRUE,
                     check(d, st, restaurantId, newDate, minutesToHHMM(roundedMin),
                           newSize, d[idx].id))

\* UpdateRounded with the check run only when the party size changes.
UpdateRoundedSizeOnly(d, st, restaurantId, idx, changes, newDate, newTime, newSize, roundedMin) ==
  IF ~IsFinite(roundedMin)
  THEN Outcome(Failure(NoVal, "Invalid normalized time"), d, FALSE)
  ELSE UpdateChecked(d, restaurantId, idx, changes, newDate, minutesToHHMM(roundedMin), newSize,
                     newSize # d[idx].partySize,
                     check(d, st, restaurantId, newDate, minutesToHHMM(roundedMin),
                           newSize, d[idx].id))

\* case 'update_reservation', the time rounded to its slot
UpdateRounded(d, st, restaurantId, idx, changes, newDate, newTime, newSize, roundedMin) ==
  IF ~IsFinite(roundedMin)
  THEN Outcome(Failure(NoVal, "Invalid normalized time"), d, FALSE)
  ELSE UpdateChecked(d, restaurantId, idx, changes, newDate, minutesToHHMM(roundedMin), newSize,
                     newDate # d[idx].date \/ newTime # d[idx].time
                       \/ newSize # d[idx].partySize,
                     check(d, st, restaurantId, newDate, minutesToHHMM(roundedMin),
                           newSize, d[idx].id))

\* case 'update_reservation', the merged date, time and party size in hand
UpdateMerged(d, st, cfg, restaurantId, idx, changes, newDate, newTime, newSize) ==
  IF newDate = NoDate
  THEN Outcome(Failure(NoVal, "Invalid date format"), d, FALSE)
  ELSE IF ~IsFinite(parseTimeToMinutes(newTime))
  THEN Outcome(Failure(NoVal, "Invalid time format"), d, FALSE)
  ELSE UpdateRounded(d, st, restaurantId, idx, changes, newDate, newTime, newSize,
                     roundToSlot(parseTimeToMinutes(newTime), cfg.slotIntervalMin,
                                 cfg.slotRounding))

\* case 'update_reservation', currentRes found at idx
UpdateFound(d, st, restaurantId, now, idx, changes) ==
  UpdateMerged(d, st, getReservationSettings(st, restaurantId), restaurantId, idx, changes,
               IF changes.date.kind # "none"
               THEN normalizeDateInput(changes.date, now) ELSE d[idx].date,
               IF changes.time # NoTime THEN changes.time ELSE d[idx].time,
               IF changes.party_size # 0 THEN changes.party_size ELSE d[idx].partySize)

ExecUpdateReservation(d, st, restaurantId, now, payload) ==
  IF payload.reservation_id = 0
  THEN Outcome(Failure(NoVal, "Reservation id missing"), d, FALSE)
  ELSE IF findIndex(d, restaurantId, payload.reservation_id) = 0
  THEN Outcome(Failure(NoVal, "Reservation not found"), d, FALSE)
  ELSE UpdateFound(d, st, restaurantId, now,
                   findIndex(d, restaurantId, payload.reservation_id), payload.changes)

ExecCancelReservation(d, restaurantId, payload) ==
  Outcome(EngineResponse(findIndex(d, restaurantId, payload.reservation_id) # 0,
                         NoVal, NoVal, <<>>, NoTime, NoVal, <<>>),
          RepoCancel(d, restaurantId, payload.reservation_id), FALSE)

getStats(d, restaurantId, phone, now) ==
  LET active == getByPhone(d, restaurantId, phone, now)
  IN [count |-> Len(active), hasActive |-> Len(active) > 0, reservations |-> active]

(***************************************************************************)
(* Inputs                                                                  *)
(***************************************************************************)

\* The most records the reservation array holds.
MaxRes == 2

\* ctx.now of every call: 2026-03-17 12:00
Now == Instant(<<2026, 3, 17>>, 720)

\* The settings the owner of rA stored: a small room with short turns.  rB
\* stored nothing and runs on RESERVATION_CONFIG.
StoredA ==
  [ totalCapacity |-> 10,
    standardDurationMin |-> 50,
    openingHours |-> << [start |-> HHMM(13, 0), end |-> HHMM(14, 0)],
                        [start |-> HHMM(20, 0), end |-> HHMM(23, 0)] >> ]

OpenDay == <<2026, 3, 18>>
ClosedDay == <<2026, 3, 19>>

CheckPayload(date, time, party_size) ==
  [date |-> date, time |-> time, party_size |-> party_size]

CreatePayload(date, time, party_size, table_id, notes) ==
  [date |-> date, time |-> time, party_size |-> party_size, name |-> "Ana",
   notes |-> notes, phone |-> NoVal, table_id |-> table_id]

ChangeSet(date, time, party_size, table_id, notes) ==
  [date |-> date, time |-> time, party_size |-> party_size, table_id |-> table_id,
   notes |-> notes]

\* Times of requests that can be accepted where both tenants make calls: two
\* dinner slots of the open day in rA (20:10 rounds up to 20:30; the windows
\* are 60 minutes long, so the two overlap), one in rB.
GoodTimes(restaurantId) ==
  IF restaurantId = "rA" THEN {HHMM(20, 0), HHMM(20, 10)} ELSE {HHMM(20, 0)}

\* Where rA alone makes calls, a third slot: 21:00 touches 20:00 and overlaps
\* 20:30.
WideTimes == GoodTimes("rA") \cup {HHMM(21, 0)}

\* Requests a rule rejects: closed day, party over the maximum, a slot too
\* late in the shift, a time outside every shift.
RejectedRequests ==
  { <<IsoText(ClosedDay), HHMM(19, 0), 9>>,
    <<IsoText(OpenDay), HHMM(19, 0), 9>>,
    <<IsoText(OpenDay), HHMM(19, 0), 5>>,
    <<IsoText(OpenDay), HHMM(22, 30), 5>>,
    <<IsoText(OpenDay), HHMM(23, 10), 5>> }

CoreSizes(restaurantId) == IF restaurantId = "rA" THEN {5, 8} ELSE {8}

CoreRequests(restaurantId, times) ==
  {<<IsoText(OpenDay), t, n>> : t \in times, n \in CoreSizes(restaurantId)}
    \cup RejectedRequests

CoreChecks(restaurantId, times) ==
  {CheckPayload(q[1], q[2], q[3]) : q \in CoreRequests(restaurantId, times)}

\* The parties of 5 ask for table T1, the others for no table.
CoreCreates(restaurantId, times) ==
  {CreatePayload(q[1], q[2], q[3], IF q[3] = 5 THEN "T1" ELSE NoVal, NoVal) :
     q \in CoreRequests(restaurantId, times)}

\* Changes of the time, of the party size, and of the date to the closed day.
CoreChanges(restaurantId, times) ==
  {ChangeSet(NoDateText, t, 0, NoVal, NoVal) : t \in times \cup {HHMM(22, 30)}}
    \cup {ChangeSet(NoDateText, NoTime, n, NoVal, NoVal) : n \in CoreSizes(restaurantId) \cup {9}}
    \cup {ChangeSet(IsoText(ClosedDay), NoTime, 0, NoVal, NoVal)}

\* Every change on every id the store can hold, and one update with no id.
CoreUpdates(restaurantId, times) ==
  [reservation_id : 1..MaxRes, changes : CoreChanges(restaurantId, times)]
    \cup {[reservation_id |-> 0, changes |-> ChangeSet(NoDateText, HHMM(20, 0), 0, NoVal, NoVal)]}

CoreCancels(restaurantId) == [reservation_id : 0..MaxRes]

(***************************************************************************)
(* Actions: one ReservationEngine.execute call each, and its return        *)
(***************************************************************************)

\* The call in flight: the action, the context and the EngineResponse that
\* ReservationEngine.execute hands back.
Call(type, restaurantId, payload, out) ==
  [ type |-> type, restaurant_id |-> restaurantId, payload |-> payload,
    resp |-> out.resp, checked |-> out.checked ]

\* No call in flight.
Idle == [type |-> "idle"]

\* The browser tabs that share the localStorage of the origin.
Tabs == {"tab1", "tab2"}

\* A tab that is not inside a call.
TabIdle == [pc |-> "idle"]

TabsQuiet == \A tab \in Tabs : tabs[tab] = TabIdle

\* The listeners the components of the owner console subscribe.
Listeners == {"l1", "l2"}

\* No component has subscribed, no settings were saved from the console.
OwnerInit ==
  /\ listenersByRestaurant = [t \in Tenants |-> {}]
  /\ handles = <<>>
  /\ ticks = [l \in Listeners |-> 0]
  /\ restaurantConfig = [t \in Tenants |-> <<>>]

Init ==
  /\ db = <<>>
  /\ settings = [t \in Tenants |-> IF t = "rA" THEN StoredA ELSE <<>>]
  /\ last = Idle
  /\ tabs = [tab \in Tabs |-> TabIdle]
  /\ OwnerInit

\* execute runs from its first statement to its return statement while no
\* other tab is inside a call: the store it leaves and its response.
Respond(type, restaurantId, payload, out) ==
  /\ TabsQuiet
  /\ Len(out.db) <= MaxRes
  /\ db' = out.db
  /\ last' = Call(type, restaurantId, payload, out)
  /\ UNCHANGED <<settings, tabs>>
  /\ UNCHANGED owner

CheckAvailability(restaurantId, payload) ==
  /\ last = Idle
  /\ Respond("check_availability", restaurantId, payload,
             ExecCheckAvailability(db, settings, restaurantId, Now, payload))

CreateReservation(restaurantId, phone, payload) ==
  /\ last = Idle
  /\ Respond("create_reservation", restaurantId, payload,
             ExecCreateReservation(db, settings, restaurantId, phone, Now, payload))

UpdateReservation(restaurantId, payload) ==
  /\ last = Idle
  /\ Respond("update_reservation", restaurantId, payload,
             ExecUpdateReservation(db, settings, restaurantId, Now, payload))

CancelReservation(restaurantId, payload) ==
  /\ last = Idle
  /\ Respond("cancel_reservation", restaurantId, payload,
             ExecCancelReservation(db, restaurantId, payload))

\* execute has returned: the caller takes the EngineResponse.
Return ==
  /\ last # Idle
  /\ last' = Idle
  /\ UNCHANGED <<db, settings, tabs>>
  /\ UNCHANGED owner

Next ==
  \/ \E t \in Tenants : \E p \in CoreChecks(t, GoodTimes(t)) : CheckAvailability(t, p)
  \/ \E t \in Tenants : \E p \in CoreCreates(t, GoodTimes(t)) : CreateReservation(t, "600", p)
  \/ \E t \in Tenants : \E p \in CoreUpdates(t, GoodTimes(t)) : UpdateReservation(t, p)
  \/ \E t \in Tenants : \E p \in CoreCancels(t) : CancelReservation(t, p)
  \/ Return

Spec == Init /\ [][Next]_vars

\* The calls of tenant rA alone: the store holds no record of rB.
NextA ==
  \/ \E p \in CoreChecks("rA", WideTimes) : CheckAvailability("rA", p)
  \/ \E p \in CoreCreates("rA", WideTimes) : CreateReservation("rA", "600", p)
  \/ \E p \in CoreUpdates("rA", WideTimes) : UpdateReservation("rA", p)
  \/ \E p \in CoreCancels("rA") : CancelReservation("rA", p)
  \/ Return

SpecA == Init /\ [][NextA]_vars

(***************************************************************************)
(* Two tabs: create_reservation statement by statement                     *)
(***************************************************************************)

\* Each tab runs execute to completion on its own thread, but the tabs of an
\* origin share localStorage: between the getItem of one loadDB and the
\* setItem of the saveDB that follows, another tab may read or write the
\* store.  A create_reservation touches the store in three places: the
\* loadDB inside AvailabilityService.check, the loadDB of
\* ReservationRepository.create and its saveDB.

\* The tables of the room, as the owner console passes them to the table
\* functions.
Tables ==
  << RestaurantTable("T2", "rA", "Mesa 2", 8, "table", "free"),
     RestaurantTable("T1", "rA", "Mesa 1", 6, "table", "reserved"),
     RestaurantTable("T3", "rA", "Mesa 3", 6, "table", "blocked"),
     RestaurantTable("S1", "rA", "Barra 1", 4, "stool", "free"),
     RestaurantTable("X1", "rB", "Terraza 1", 8, "table", "free") >>

\* The bookings the tabs ask for: a party of 8 with no table, parties of 5 at
\* table T1 in two slots whose windows overlap.
TabCreates ==
  { CreatePayload(IsoText(OpenDay), HHMM(20, 0), 8, NoVal, NoVal),
    CreatePayload(IsoText(OpenDay), HHMM(20, 0), 5, "T1", NoVal),
    CreatePayload(IsoText(OpenDay), HHMM(20, 10), 5, "T1", NoVal) }

\* Changes of the notes only, of the table only, of both, and of the time.
TabChanges ==
  { ChangeSet(NoDateText, NoTime, 0, NoVal, "late"),
    ChangeSet(NoDateText, NoTime, 0, "T2", NoVal),
    ChangeSet(NoDateText, NoTime, 0, "T1", "late"),
    ChangeSet(NoDateText, HHMM(21, 0), 0, NoVal, NoVal) }

TabUpdates == [reservation_id : 1..MaxRes, changes : TabChanges]

TabCancels == [reservation_id : 1..MaxRes]

\* The number of tabs between the check and the write of a create.
RECURSIVE Writing(_)
Writing(S) ==
  IF S = {} THEN 0
  ELSE LET tab == CHOOSE x \in S : TRUE
       IN (IF tabs[tab].pc \in {"checked", "loaded"} THEN 1 ELSE 0) + Writing(S \ {tab})

\* Where a tab stands after the check of create_reservation: at its return
\* statement when a validation or the check failed, before
\* ReservationRepository.create otherwise.  seen is the store the check read.
Checked(restaurantId, payload, d, out) ==
  IF out.resp.success
  THEN [ pc |-> "checked", restaurant_id |-> restaurantId, payload |-> payload, seen |-> d,
         data |-> out.resp.data[1], normalized_time |-> out.resp.normalized_time ]
  ELSE [ pc |-> "done", restaurant_id |-> restaurantId, payload |-> payload, seen |-> d,
         resp |-> out.resp ]

\* engine.ts 89-123: the validations and AvailabilityService.check
TabCheck(tab, restaurantId, phone, payload) ==
  /\ last = Idle
  /\ tabs[tab] = TabIdle
  /\ Len(db) + Writing(Tabs) < MaxRes
  /\ tabs' = [tabs EXCEPT ![tab] =
                Checked(restaurantId, payload, db,
                        ExecCreateReservation(db, settings, restaurantId, phone, Now, payload))]
  /\ UNCHANGED <<db, settings, last>>
  /\ UNCHANGED owner

\* ReservationRepository.create: const db = loadDB()
TabLoad(tab) ==
  /\ tabs[tab].pc = "checked"
  /\ tabs' = [tabs EXCEPT ![tab] = [ pc |-> "loaded", restaurant_id |-> @.restaurant_id,
                                     payload |-> @.payload, seen |-> @.seen,
                                     data |-> @.data,
                                     normalized_time |-> @.normalized_time,
                                     loaded |-> db ]]
  /\ UNCHANGED <<db, settings, last>>
  /\ UNCHANGED owner

\* What the tab writes and returns: db.push(newRes); saveDB(db); return
Saved(tab, d2) ==
  [ pc |-> "done", restaurant_id |-> tab.restaurant_id, payload |-> tab.payload,
    seen |-> tab.seen,
    resp |-> CreateWritten(d2, [normalized_time |-> tab.normalized_time]).resp ]

\* ReservationRepository.create: push and saveDB on the array it loaded,
\* then the return statement of create_reservation
TabSave(tab) ==
  /\ tabs[tab].pc = "loaded"
  /\ db' = RepoCreate(tabs[tab].loaded, tabs[tab].restaurant_id, tabs[tab].data)
  /\ tabs' = [tabs EXCEPT ![tab] = Saved(@, db')]
  /\ UNCHANGED <<settings, last>>
  /\ UNCHANGED owner

\* The caller in the tab takes the EngineResponse.
TabReturn(tab) ==
  /\ tabs[tab].pc = "done"
  /\ tabs' = [tabs EXCEPT ![tab] = TabIdle]
  /\ UNCHANGED <<db, settings, last>>
  /\ UNCHANGED owner

NextTabs ==
  \/ \E tab \in Tabs : \E p \in TabCreates : TabCheck(tab, "rA", "600", p)
  \/ \E tab \in Tabs : TabLoad(tab)
  \/ \E tab \in Tabs : TabSave(tab)
  \/ \E tab \in Tabs : TabReturn(tab)
  \/ \E p \in TabUpdates : UpdateReservation("rA", p)
  \/ \E p \in TabCancels : CancelReservation("rA", p)
  \/ Return

SpecTabs == Init /\ [][NextTabs]_vars

(***************************************************************************)
(* The front desk: one tenant, two possible settings, every kind of request *)
(***************************************************************************)

\* Settings the owner of rA may have stored instead of StoredA: parties up
\* to 6, times rounded to the nearest slot, an evening shift that runs to
\* 23:59 (the last slot that ends in it is 23:00), and two closed dates.
StoredLate ==
  [ totalCapacity |-> 10,
    maxPartySize |-> 6,
    standardDurationMin |-> 50,
    slotRounding |-> "nearest",
    openingHours |-> << [start |-> HHMM(13, 0), end |-> HHMM(14, 0)],
                        [start |-> HHMM(20, 0), end |-> HHMM(23, 59)] >>,
    closedDates |-> { <<2026, 3, 19>>, <<2026, 3, 21>> } ]

LaterDay == <<2026, 3, 20>>

\* The requested times: on a slot, off a slot, before, between and after the
\* shifts, in the last half hour of the day, and a text that is no time.
DeskTimes ==
  { HHMM(20, 0), HHMM(20, 10), HHMM(20, 30), HHMM(12, 0), HHMM(19, 0), HHMM(22, 30),
    HHMM(23, 10), HHMM(23, 50), HHMM(23, 59), Garbage }

DeskSizes == {5, 7, 9}

\* check_availability payloads: every time and size on the open and on the
\* closed day, and payloads with a field missing or a date that is no date.
DeskChecks ==
  {CheckPayload(IsoText(date), t, n) : date \in {OpenDay, ClosedDay}, t \in DeskTimes,
                                       n \in DeskSizes}
    \cup { CheckPayload(NoDateText, HHMM(20, 0), 5),
           CheckPayload(IsoText(OpenDay), NoTime, 5),
           CheckPayload(IsoText(OpenDay), HHMM(20, 0), 0),
           CheckPayload(WordText("abc"), HHMM(20, 0), 5),
           CheckPayload(IsoText(<<2026, 2, 30>>), HHMM(20, 0), 5) }

\* create_reservation payloads for parties of 6: two touching slots of the
\* open day, the last slot of the long evening, a slot two days later given
\* as "20/3"; one of them under another phone.  Then payloads with a field
\* missing, a date or a time that does not parse, and a party over the maximum.
DeskCreates ==
  { CreatePayload(IsoText(OpenDay), HHMM(20, 0), 6, "T1", NoVal),
    [CreatePayload(IsoText(OpenDay), HHMM(21, 0), 6, NoVal, NoVal) EXCEPT !.phone = "700"],
    CreatePayload(IsoText(OpenDay), HHMM(23, 0), 6, "T1", NoVal),
    CreatePayload(DmyText(20, 3, -1), HHMM(20, 0), 6, NoVal, NoVal),
    CreatePayload(NoDateText, HHMM(20, 0), 6, NoVal, NoVal),
    CreatePayload(IsoText(OpenDay), NoTime, 6, NoVal, NoVal),
    CreatePayload(IsoText(OpenDay), HHMM(20, 0), 0, NoVal, NoVal),
    [CreatePayload(IsoText(OpenDay), HHMM(20, 0), 6, NoVal, NoVal) EXCEPT !.name = ""],
    CreatePayload(WordText("abc"), HHMM(20, 0), 6, NoVal, NoVal),
    CreatePayload(IsoText(OpenDay), Garbage, 6, NoVal, NoVal),
    CreatePayload(IsoText(OpenDay), HHMM(20, 0), 9, NoVal, NoVal) }

\* update_reservation payloads that are refused: a time or a date that does
\* not parse, the closed day, a party over the maximum, no id.
DeskChanges ==
  { ChangeSet(NoDateText, Garbage, 0, NoVal, NoVal),
    ChangeSet(WordText("abc"), NoTime, 0, NoVal, NoVal),
    ChangeSet(IsoText(ClosedDay), NoTime, 0, NoVal, NoVal),
    ChangeSet(NoDateText, NoTime, 9, NoVal, NoVal) }

DeskUpdates ==
  [reservation_id : 1..MaxRes, changes : DeskChanges]
    \cup {[reservation_id |-> 0, changes |-> ChangeSet(NoDateText, HHMM(20, 0), 0, NoVal, NoVal)]}

DeskCancels == [reservation_id : 1..MaxRes]

InitDesk ==
  /\ db = <<>>
  /\ settings \in {[t \in Tenants |-> IF t = "rA" THEN stored ELSE <<>>] :
                     stored \in {StoredA, StoredLate}}
  /\ last = Idle
  /\ tabs = [tab \in Tabs |-> TabIdle]
  /\ OwnerInit

NextDesk ==
  \/ \E p \in DeskChecks : CheckAvailability("rA", p)
  \/ \E p \in DeskCreates : CreateReservation("rA", "600", p)
  \/ \E p \in DeskUpdates : UpdateReservation("rA", p)
  \/ \E p \in DeskCancels : CancelReservation("rA", p)
  \/ Return

SpecDesk == InitDesk /\ [][NextDesk]_vars

(***************************************************************************)
(* settings.ts: saving the settings and the listeners of a tenant          *)
(***************************************************************************)

\* The subscriptions made in a run, and the calls a listener may count.
MaxSubs == 2
MaxTicks == 1

\* The number the next subscribe or unsubscribe call has in the run.
NextStamp ==
  Len(handles) + Cardinality({i \in 1..Len(handles) : handles[i].called # 0}) + 1

\* The closure subscribeReservationSettings returns: the tenant and the
\* listener it closes over, when it was made and when it was called (0: not
\* yet).
Handle(restaurantId, listener, since) ==
  [restaurant_id |-> restaurantId, listener |-> listener, since |-> since, called |-> 0]

\* subscribeReservationSettings: set.add(listener); a tenant without an
\* entry in the Map has the empty Set here.
Subscribe(restaurantId, listener) ==
  /\ last = Idle /\ TabsQuiet
  /\ Len(handles) < MaxSubs
  /\ listenersByRestaurant' =
       [listenersByRestaurant EXCEPT ![restaurantId] = @ \cup {listener}]
  /\ handles' = Append(handles, Handle(restaurantId, listener, NextStamp))
  /\ UNCHANGED <<db, settings, last, tabs, ticks, restaurantConfig>>

\* The unsubscribe closure, called once: s.delete(listener)
Unsubscribe(i) ==
  /\ last = Idle /\ TabsQuiet
  /\ i \in 1..Len(handles) /\ handles[i].called = 0
  /\ listenersByRestaurant' =
       [listenersByRestaurant EXCEPT ![handles[i].restaurant_id] = @ \ {handles[i].listener}]
  /\ handles' = [handles EXCEPT ![i].called = NextStamp]
  /\ UNCHANGED <<db, settings, last, tabs, ticks, restaurantConfig>>

\* notify with the listeners of every tenant called.
notifyAll(lbr, restaurantId, tk) == [l \in Listeners |-> tk[l] + 1]

\* notify: for (const l of ls) l(), each listener counting its call
notify(lbr, restaurantId, tk) ==
  [l \in Listeners |-> IF l \in lbr[restaurantId] THEN tk[l] + 1 ELSE tk[l]]

\* { ...getReservationSettings(restaurantId), ...patch }
NextSettings(st, restaurantId, patch) ==
  MergeConfig(getReservationSettings(st, restaurantId), patch)

\* updateReservationSettings: saveRaw (setItem, notify), then
\* RestaurantConfigRepository.patch with the interval and the rounding.
UpdateReservationSettings(restaurantId, patch) ==
  /\ last = Idle /\ TabsQuiet
  /\ \A l \in listenersByRestaurant[restaurantId] : ticks[l] < MaxTicks
  /\ settings' = [settings EXCEPT ![restaurantId] = NextSettings(settings, restaurantId, patch)]
  /\ ticks' = notify(listenersByRestaurant, restaurantId, ticks)
  /\ restaurantConfig' =
       [restaurantConfig EXCEPT ![restaurantId] =
          [slot_interval_min |-> NextSettings(settings, restaurantId, patch).slotIntervalMin,
           slot_rounding |-> NextSettings(settings, restaurantId, patch).slotRounding]]
  /\ UNCHANGED <<db, last, tabs, listenersByRestaurant, handles>>

\* What the owner changes while components listen: the slot interval or the
\* rounding mode.
SlotPatches == {[slotIntervalMin |-> 15], [slotRounding |-> "floor"]}

\* The owner console alone: components subscribe and unsubscribe, the owner
\* of a tenant saves settings.
NextRegistry ==
  \/ \E t \in Tenants, l \in Listeners : Subscribe(t, l)
  \/ \E i \in 1..MaxSubs : Unsubscribe(i)
  \/ \E t \in Tenants, patch \in SlotPatches : UpdateReservationSettings(t, patch)

SpecRegistry == Init /\ [][NextRegistry]_vars

(***************************************************************************)
(* settings.ts: what may be stored                                         *)
(***************************************************************************)

\* Stored overrides with every sanitized field out of its domain, and with
\* every sanitized field at the lowest value of its domain.
StoredBad ==
  [ totalCapacity |-> -1, maxPartySize |-> 0, standardDurationMin |-> NaN,
    bufferMin |-> -10, slotIntervalMin |-> 0, slotRounding |-> "up" ]
StoredLowest ==
  [ totalCapacity |-> 0, maxPartySize |-> 1, standardDurationMin |-> 1,
    bufferMin |-> 0, slotIntervalMin |-> 1, slotRounding |-> "nearest" ]

\* What the settings form, or another version of the application, may save:
\* one field, in or out of its domain.
OddPatches ==
  { [totalCapacity |-> -1], [totalCapacity |-> 0], [totalCapacity |-> NaN],
    [maxPartySize |-> 0], [maxPartySize |-> 1], [maxPartySize |-> NaN],
    [standardDurationMin |-> 0], [standardDurationMin |-> 45],
    [bufferMin |-> -1], [bufferMin |-> 0],
    [slotIntervalMin |-> 0], [slotIntervalMin |-> 1], [slotIntervalMin |-> NaN],
    [slotRounding |-> "up"], [slotRounding |-> "nearest"],
    [closedDates |-> {}] }

InitSettings ==
  /\ db = <<>>
  /\ settings \in [Tenants -> {<<>>, Unparsable, StoredA, StoredBad, StoredLowest}]
  /\ last = Idle
  /\ tabs = [tab \in Tabs |-> TabIdle]
  /\ OwnerInit

\* The settings form of tenant rA alone.
NextSettingsForm == \E patch \in OddPatches : UpdateReservationSettings("rA", patch)

SpecSettings == InitSettings /\ [][NextSettingsForm]_vars

(***************************************************************************)
(* The assistant's tool calls: sizes and times as the model produced them  *)
(***************************************************************************)

\* The party sizes a tool call carries: a number the language model wrote,
\* negative, or a usual one.
GuestSizes == {-2, 5}

\* The times a tool call carries: on a slot, off a slot, in the last half
\* hour of the short evening, after it.
GuestTimes == {HHMM(20, 0), HHMM(20, 10), HHMM(22, 30), HHMM(23, 10)}

\* create_reservation payloads: a party of 5 at every time of the open day,
\* a party of -2 at 20:00, a party of 5 on the closed day, a party of 0.
GuestCreates ==
  {CreatePayload(IsoText(OpenDay), t, 5, NoVal, NoVal) : t \in GuestTimes}
    \cup { CreatePayload(IsoText(OpenDay), HHMM(20, 0), -2, NoVal, NoVal),
           CreatePayload(IsoText(ClosedDay), HHMM(20, 0), 5, NoVal, NoVal),
           CreatePayload(IsoText(OpenDay), HHMM(20, 0), 0, NoVal, NoVal) }

\* update_reservation changes: of the time, of the party size, of the date
\* to the closed day, and of the notes alone.
GuestChanges ==
  {ChangeSet(NoDateText, t, 0, NoVal, NoVal) : t \in GuestTimes}
    \cup {ChangeSet(NoDateText, NoTime, n, NoVal, NoVal) : n \in GuestSizes \cup {9}}
    \cup { ChangeSet(IsoText(ClosedDay), NoTime, 0, NoVal, NoVal),
           ChangeSet(NoDateText, NoTime, 0, NoVal, "late") }

GuestUpdates == [reservation_id : 1..MaxRes, changes : GuestChanges]

NextGuests ==
  \/ \E p \in GuestCreates : CreateReservation("rA", "600", p)
  \/ \E p \in GuestUpdates : UpdateReservation("rA", p)
  \/ \E p \in DeskCancels : CancelReservation("rA", p)
  \/ Return

SpecGuests == InitDesk /\ [][NextGuests]_vars

(***************************************************************************)
(* The owner changes the slots while reservations are stored               *)
(***************************************************************************)

\* What the settings form saves: slots of an hour, slots of half an hour
\* again, times rounded down.
SlotChanges ==
  {[slotIntervalMin |-> 60], [slotIntervalMin |-> 30], [slotRounding |-> "floor"]}

\* Parties of 5 on the open day, at a time on a slot and at one off it.
OwnerCreates ==
  {CreatePayload(IsoText(OpenDay), t, 5, NoVal, NoVal) : t \in {HHMM(20, 0), HHMM(20, 10)}}

\* Changes of the notes only, of the table only, and of the time.
OwnerChanges ==
  { ChangeSet(NoDateText, NoTime, 0, NoVal, "late"),
    ChangeSet(NoDateText, NoTime, 0, "T2", NoVal),
    ChangeSet(NoDateText, HHMM(21, 0), 0, NoVal, NoVal) }

OwnerUpdates == [reservation_id : 1..MaxRes, changes : OwnerChanges]

NextOwner ==
  \/ \E p \in OwnerCreates : CreateReservation("rA", "600", p)
  \/ \E p \in OwnerUpdates : UpdateReservation("rA", p)
  \/ \E p \in DeskCancels : CancelReservation("rA", p)
  \/ \E patch \in SlotChanges : UpdateReservationSettings("rA", patch)
  \/ Return

SpecOwner == Init /\ [][NextOwner]_vars

(***************************************************************************)
(* timeSlots.ts called on its own                                          *)
(***************************************************************************)

\* The texts parseTimeToMinutes is called with: one or two hour digits, no,
\* one or two minute digits, hours up to 25 and minutes up to 61, 99 in
\* either place, and the empty text.
TimeTexts ==
  {TimeStr(hd, h, md, m) :
     hd \in {1, 2}, h \in 0..25 \cup {99}, md \in {0, 1, 2}, m \in 0..61 \cup {99}}
    \cup {Garbage}

\* A text as it can be written: one digit holds 0..9, and without a ":MM"
\* part there is no minute.
Writable(text) ==
  /\ text.hd = 1 => text.h <= 9
  /\ text.md = 1 => text.m <= 9
  /\ text.md = 0 => text.m = 0

\* The minutes minutesToHHMM and roundToSlot are called with.
MinuteValues == (-40)..1500 \cup {NaN}
RoundedValues == (-40)..100 \cup 1400..1450
Intervals == {-5, 0, 1, 7, 15, 30, 60}
Modes == {"floor", "ceil", "nearest"}

\* parseTimeToMinutes(text)
ParseTime(text) ==
  /\ last = Idle /\ Writable(text)
  /\ last' = [type |-> "parseTimeToMinutes", text |-> text, min |-> parseTimeToMinutes(text),
              first |-> TRUE]
  /\ UNCHANGED <<db, settings, tabs>>
  /\ UNCHANGED owner

\* minutesToHHMM(parseTimeToMinutes(text)): the round trip from a text
FormatParsed ==
  /\ last.type = "parseTimeToMinutes" /\ last.first
  /\ last' = [type |-> "minutesToHHMM", min |-> last.min, text |-> minutesToHHMM(last.min),
              first |-> FALSE, from |-> last.text]
  /\ UNCHANGED <<db, settings, tabs>>
  /\ UNCHANGED owner

\* minutesToHHMM(min)
FormatMinutes(min) ==
  /\ last = Idle
  /\ last' = [type |-> "minutesToHHMM", min |-> min, text |-> minutesToHHMM(min),
              first |-> TRUE]
  /\ UNCHANGED <<db, settings, tabs>>
  /\ UNCHANGED owner

\* parseTimeToMinutes(minutesToHHMM(min)): the round trip from a number
ParseFormatted ==
  /\ last.type = "minutesToHHMM" /\ last.first
  /\ last' = [type |-> "parseTimeToMinutes", text |-> last.text,
              min |-> parseTimeToMinutes(last.text), first |-> FALSE, from |-> last.min]
  /\ UNCHANGED <<db, settings, tabs>>
  /\ UNCHANGED owner

\* roundToSlot(min, interval, mode)
RoundToSlot(min, interval, mode) ==
  /\ last = Idle
  /\ last' = [type |-> "roundToSlot", min |-> min, interval |-> interval, mode |-> mode,
              slot |-> roundToSlot(min, interval, mode), first |-> TRUE]
  /\ UNCHANGED <<db, settings, tabs>>
  /\ UNCHANGED owner

\* roundToSlot applied to its own result, with the same interval and mode
RoundAgain ==
  /\ last.type = "roundToSlot" /\ last.first
  /\ last' = [type |-> "roundToSlot", min |-> last.slot, interval |-> last.interval,
              mode |-> last.mode,
              slot |-> roundToSlot(last.slot, last.interval, last.mode),
              first |-> FALSE, from |-> last.min]
  /\ UNCHANGED <<db, settings, tabs>>
  /\ UNCHANGED owner

NextTimes ==
  \/ \E text \in TimeTexts : ParseTime(text)
  \/ FormatParsed
  \/ \E min \in MinuteValues : FormatMinutes(min)
  \/ ParseFormatted
  \/ \E min \in RoundedValues \cup {NaN}, interval \in Intervals, mode \in Modes :
       RoundToSlot(min, interval, mode)
  \/ RoundAgain
  \/ Return

SpecTimes == Init /\ [][NextTimes]_vars

(***************************************************************************)
(* The documented behaviour, in the words of the design                    *)
(***************************************************************************)

\* Minute of the day of a stored "HH:MM".
MinuteOf(time) == time.h * 60 + time.m

\* Length of a window: [start, start + duration + buffer)
WindowLen(cfg) == cfg.standardDurationMin + cfg.bufferMin

\* Two windows of length len starting at s1 and s2 share a minute.
WindowsOverlap(s1, s2, len) == s1 < s2 + len /\ s2 < s1 + len

\* The positions of the active reservations of a tenant on a date.
ActiveOn(d, restaurantId, date) ==
  {i \in 1..Len(d) : /\ d[i].restaurant_id = restaurantId
                     /\ d[i].date = date
                     /\ d[i].status = "active"}

RECURSIVE SumSizes(_, _)
SumSizes(S, d) ==
  IF S = {} THEN 0
  ELSE LET i == CHOOSE j \in S : TRUE IN d[i].partySize + SumSizes(S \ {i}, d)

\* The load a request starting at minute start meets: the party sizes of the
\* active reservations of the date, other than ex, whose window overlaps.
LoadOn(d, cfg, restaurantId, date, start, ex) ==
  SumSizes({i \in ActiveOn(d, restaurantId, date) :
              /\ d[i].id # ex
              /\ WindowsOverlap(start, MinuteOf(d[i].time), WindowLen(cfg))}, d)

\* The first shift with start <= m < end, 0 if there is none.
MatchedShift(cfg, m) ==
  LET in == {k \in 1..Len(cfg.openingHours) :
               /\ MinuteOf(cfg.openingHours[k].start) <= m
               /\ m < MinuteOf(cfg.openingHours[k].end)}
  IN IF in = {} THEN 0 ELSE CHOOSE k \in in : \A j \in in : k <= j

\* The slot a requested time falls on.
SlotOf(cfg, time) ==
  roundToSlot(parseTimeToMinutes(time), cfg.slotIntervalMin, cfg.slotRounding)

IsClosed(cfg, date) == date \in cfg.closedDates
TooLarge(cfg, n) == n > cfg.maxPartySize
OutOfHours(cfg, m) == MatchedShift(cfg, m) = 0
PastTurnEnd(cfg, m) ==
  /\ MatchedShift(cfg, m) # 0
  /\ m + cfg.standardDurationMin > MinuteOf(cfg.openingHours[MatchedShift(cfg, m)].end)

\* The closed-date, max-party, out-of-hours and turn-end rules all pass.
RulesPass(cfg, date, m, n) ==
  ~IsClosed(cfg, date) /\ ~TooLarge(cfg, n) /\ ~OutOfHours(cfg, m) /\ ~PastTurnEnd(cfg, m)

\* The requests the pure functions are probed with in every reachable store.
ProbeDates == {OpenDay, ClosedDay}
ProbeTimes == {HHMM(20, 0), HHMM(20, 10), HHMM(21, 0), HHMM(22, 30), HHMM(19, 0)}
ProbeSizes == {5, 8, 9}

\* The current settings of a tenant
Cfg(restaurantId) == getReservationSettings(settings, restaurantId)

\* The tenants a store is probed for where rA alone makes calls: rA, whose
\* reservations it holds, and in the empty store rB too, which runs on the
\* default settings.
Probed == IF db = <<>> THEN Tenants ELSE {"rA"}

(***************************************************************************)
(* C1                                                                      *)
(***************************************************************************)

\* Two stored records are active reservations of one tenant, one date and
\* one assigned table.
ShareTable(r1, r2) ==
  /\ r1.status = "active" /\ r2.status = "active"
  /\ r1.restaurant_id = r2.restaurant_id
  /\ r1.date = r2.date
  /\ r1.table_id # NoVal /\ r1.table_id = r2.table_id

\* C1: after any sequence of create_reservation, update_reservation and
\* cancel_reservation run one after the other through execute, no two active
\* reservations of one tenant, one date and one assigned table have windows
\* [time, time + standardDurationMin + bufferMin) that overlap.
C1_NoTableOverlap ==
  \A i, j \in 1..Len(db) :
    (i < j /\ ShareTable(db[i], db[j])) =>
      ~WindowsOverlap(MinuteOf(db[i].time), MinuteOf(db[j].time),
                      WindowLen(Cfg(db[i].restaurant_id)))

(***************************************************************************)
(* C2                                                                      *)
(***************************************************************************)

\* C2: when the closed-date, max-party, out-of-hours and turn-end rules pass,
\* check answers available exactly when totalCapacity minus the load of the
\* overlapping active reservations (the excluded one apart) is at least the
\* party size, and not_available with reason capacity otherwise; windows
\* that only touch do not count.  Checked on every store the engine reaches
\* (each of them occurs with no call in flight).
C2_CapacityDecides ==
  last = Idle =>
    \A t \in Probed, date \in ProbeDates, time \in ProbeTimes, n \in ProbeSizes,
       ex \in 0..Len(db) :
      LET r == check(db, settings, t, date, time, n, ex)
      IN RulesPass(Cfg(t), date, SlotOf(Cfg(t), time), n) =>
           IF Cfg(t).totalCapacity
                - LoadOn(db, Cfg(t), t, date, SlotOf(Cfg(t), time), ex) >= n
           THEN r.status = "available"
           ELSE r.status = "not_available" /\ r.reason = "capacity"

\* A check_availability was answered available although one reservation's
\* window ends at the minute the request starts and another one overlaps it
\* and leaves exactly the requested number of seats.
C2_Witness ==
  /\ last.type = "check_availability"
  /\ last.resp.availability = "available"
  /\ LET cfg == Cfg(last.restaurant_id)
         m == SlotOf(cfg, last.payload.time)
         act == ActiveOn(db, last.restaurant_id,
                         <<last.payload.date.y, last.payload.date.m, last.payload.date.d>>)
     IN /\ \E i \in act : MinuteOf(db[i].time) + WindowLen(cfg) = m
        /\ \E j \in act :
             /\ WindowsOverlap(m, MinuteOf(db[j].time), WindowLen(cfg))
             /\ cfg.totalCapacity - db[j].partySize = last.payload.party_size

(***************************************************************************)
(* C3                                                                      *)
(***************************************************************************)

\* C3: check applies its rules in the order closed date, max party size, out
\* of hours, turn end, capacity, and answers with the reason of the first
\* rule that fails; a closed date gives reason closed whatever else holds.
C3_FirstFailingRule ==
  last = Idle =>
    \A t \in Probed, date \in ProbeDates, time \in ProbeTimes, n \in ProbeSizes,
       ex \in {0, Len(db)} :
      LET r == check(db, settings, t, date, time, n, ex)
          cfg == Cfg(t)
          m == SlotOf(cfg, time)
      IN /\ IsClosed(cfg, date) => r.reason = "closed"
         /\ ~IsClosed(cfg, date) /\ TooLarge(cfg, n) => r.reason = "max_party"
         /\ ~IsClosed(cfg, date) /\ ~TooLarge(cfg, n) /\ OutOfHours(cfg, m)
              => r.reason = "out_of_hours"
         /\ ~IsClosed(cfg, date) /\ ~TooLarge(cfg, n) /\ PastTurnEnd(cfg, m)
              => r.reason = "turn_end"
         /\ RulesPass(cfg, date, m, n) => r.reason \in {NoVal, "capacity"}
         /\ r.reason # NoVal <=> r.status = "not_available"

\* A check_availability on a closed date, for a party over the maximum and
\* at a time outside every shift, was answered with reason closed.
C3_Witness ==
  /\ last.type = "check_availability"
  /\ last.resp.reason = "closed"
  /\ LET cfg == Cfg(last.restaurant_id)
     IN /\ TooLarge(cfg, last.payload.party_size)
        /\ OutOfHours(cfg, SlotOf(cfg, last.payload.time))

(***************************************************************************)
(* C4                                                                      *)
(***************************************************************************)

\* The date and the slot a create_reservation or check_availability payload
\* asks for.
AskedDate(payload) == normalizeDateInput(payload.date, Now)
AskedSlot(cfg, payload) == minutesToHHMM(SlotOf(cfg, payload.time))

\* A payload with every required field, a date and a time that parse.
WellFormed(payload) ==
  /\ payload.date.kind # "none" /\ payload.time # NoTime /\ payload.party_size # 0
  /\ AskedDate(payload) # NoDate
  /\ IsFinite(parseTimeToMinutes(payload.time))

\* C4: create_reservation runs check on the normalized date and the
\* slot-rounded time before it writes; when that check is not available the
\* response is success=false, availability=not_available with the reason
\* and the alternatives of the check, and the store is left as it was; when
\* it is available exactly one record, with that date and slot, is added.
C4_CreateRechecks ==
  [][ (last = Idle /\ last'.type = "create_reservation" /\ WellFormed(last'.payload)) =>
        LET t == last'.restaurant_id
            p == last'.payload
            chk == check(db, settings, t, AskedDate(p), AskedSlot(Cfg(t), p),
                         p.party_size, 0)
        IN /\ last'.checked
           /\ IF chk.status # "available"
              THEN /\ last'.resp.success = FALSE
                   /\ last'.resp.availability = "not_available"
                   /\ last'.resp.reason = chk.reason
                   /\ last'.resp.alternatives = chk.alternatives
                   /\ db' = db
              ELSE /\ last'.resp.success = TRUE
                   /\ Len(db') = Len(db) + 1
                   /\ SubSeq(db', 1, Len(db)) = db
                   /\ db'[Len(db')].date = AskedDate(p)
                   /\ db'[Len(db')].time = AskedSlot(Cfg(t), p)
                   /\ db'[Len(db')].partySize = p.party_size
                   /\ db'[Len(db')].restaurant_id = t
                   /\ db'[Len(db')].status = "active"
    ]_vars

\* A create_reservation for 20:10 was turned down for capacity, with an
\* alternative offered, while the store holds a reservation.
C4_Witness ==
  /\ last.type = "create_reservation"
  /\ last.payload.time = HHMM(20, 10)
  /\ last.resp.success = FALSE
  /\ last.resp.availability = "not_available"
  /\ last.resp.reason = "capacity"
  /\ last.resp.alternatives # <<>>
  /\ Len(db) = 1

(***************************************************************************)
(* C6                                                                      *)
(***************************************************************************)

\* The values update_reservation merges from the changes and the stored
\* record at position i.
MergedDate(d, i, changes) ==
  IF changes.date.kind # "none" THEN normalizeDateInput(changes.date, Now) ELSE d[i].date
MergedTime(d, i, changes) == IF changes.time # NoTime THEN changes.time ELSE d[i].time
MergedSize(d, i, changes) ==
  IF changes.party_size # 0 THEN changes.party_size ELSE d[i].partySize

\* The position of the record an update_reservation or cancel_reservation
\* payload names within the tenant, 0 if it names none.
Resolved(d, restaurantId, payload) ==
  LET hits == {i \in 1..Len(d) :
                 d[i].restaurant_id = restaurantId /\ d[i].id = payload.reservation_id}
  IN IF hits = {} THEN 0 ELSE CHOOSE i \in hits : TRUE

\* Seats left at a slot of a date when the reservation ex is not counted.
RoomAt(d, cfg, restaurantId, date, m, ex) ==
  cfg.totalCapacity - LoadOn(d, cfg, restaurantId, date, m, ex)

\* C6: when update_reservation runs the check, the reservation being updated
\* is not counted in the load: if the other rules pass, the update is
\* accepted exactly when the other active reservations leave room for the
\* new party size; every alternative offered on refusal has that room too;
\* and on acceptance the stored record carries the merged date, the
\* slot-rounded time and the party size.
C6_UpdateExcludesItself ==
  [][ (last = Idle /\ last'.type = "update_reservation" /\ last'.checked) =>
        LET t == last'.restaurant_id
            cfg == Cfg(t)
            i == Resolved(db, t, last'.payload)
            ch == last'.payload.changes
        IN /\ i # 0
           /\ LET date == MergedDate(db, i, ch)
                  m == SlotOf(cfg, MergedTime(db, i, ch))
                  n == MergedSize(db, i, ch)
              IN /\ RulesPass(cfg, date, m, n) =>
                      (last'.resp.success <=> RoomAt(db, cfg, t, date, m, db[i].id) >= n)
                 /\ ~last'.resp.success =>
                      /\ db' = db
                      /\ \A k \in 1..Len(last'.resp.alternatives) :
                           LET a == last'.resp.alternatives[k]
                           IN RoomAt(db, cfg, t, a.date, MinuteOf(a.time), db[i].id) >= n
                 /\ last'.resp.success =>
                      /\ db'[i].date = date
                      /\ db'[i].time = minutesToHHMM(m)
                      /\ db'[i].partySize = n
                      /\ last'.resp.data = <<db'[i]>>
    ]_vars

\* A party of 8 in the room of 10 was moved to 20:10, stored as 20:30: every
\* slot it can have held (20:00, 20:30, 21:00) overlaps [20:30, 21:30), and
\* its own 8 seats counted against it would have left no room.
C6_Witness ==
  /\ last.type = "update_reservation"
  /\ last.checked
  /\ last.resp.success
  /\ last.payload.changes.time = HHMM(20, 10)
  /\ LET i == Resolved(db, last.restaurant_id, last.payload)
     IN /\ i # 0
        /\ db[i].time = HHMM(20, 30)
        /\ db[i].partySize = 8
        /\ 2 * db[i].partySize > Cfg(last.restaurant_id).totalCapacity

(***************************************************************************)
(* C7                                                                      *)
(***************************************************************************)

\* C7: cancel_reservation removes nothing.  For an id that resolves within
\* the tenant it sets the status of that record to cancelled, changes no
\* other field and no other record, and answers success=true; for any other
\* id it answers success=false and leaves the store as it was.  No step of
\* the engine makes the store shorter.
C7_CancelKeepsRecords ==
  [][ /\ Len(db') >= Len(db)
      /\ (last = Idle /\ last'.type = "cancel_reservation") =>
           LET i == Resolved(db, last'.restaurant_id, last'.payload)
           IN IF i # 0
              THEN /\ last'.resp.success = TRUE
                   /\ db' = [db EXCEPT ![i] = [db[i] EXCEPT !.status = "cancelled"]]
              ELSE /\ last'.resp.success = FALSE
                   /\ db' = db
    ]_vars

\* A cancel_reservation succeeded on the first of two stored records: it is
\* still stored, cancelled, and the second one is still active.
C7_Witness ==
  /\ last.type = "cancel_reservation"
  /\ last.resp.success
  /\ last.payload.reservation_id = 1
  /\ Len(db) = 2
  /\ db[1].status = "cancelled"
  /\ db[2].status = "active"


(***************************************************************************)
(* C9                                                                      *)
(***************************************************************************)

\* The records of one tenant, in the order of the store.
OwnRecords(d, restaurantId) ==
  LET Own(r) == r.restaurant_id = restaurantId IN SelectSeq(d, Own)

\* The phone of the customer context the engine is called with.
CtxPhone == "600"

\* In a store that holds records of other tenants, check for a tenant answers
\* what it answers when those records are taken out of the store, whichever
\* id is excluded, and getStats lists records of the tenant only.
ReadsAreScoped ==
  \A t \in Tenants :
    /\ OwnRecords(db, t) # db =>
         \A date \in ProbeDates, time \in ProbeTimes, n \in ProbeSizes, ex \in 0..Len(db) :
           check(db, settings, t, date, time, n, ex)
             = check(OwnRecords(db, t), settings, t, date, time, n, ex)
    /\ LET stats == getStats(db, t, CtxPhone, Now)
       IN /\ \A k \in 1..Len(stats.reservations) :
               stats.reservations[k].restaurant_id = t
          /\ stats = getStats(OwnRecords(db, t), t, CtxPhone, Now)

\* An update_reservation or cancel_reservation with an id that belongs to
\* another tenant fails as not found and changes nothing, and no action of a
\* tenant changes, removes or adds a record of another.
WritesAreScoped ==
  (last = Idle /\ last' # Idle) =>
    /\ (/\ last'.type \in {"update_reservation", "cancel_reservation"}
        /\ \E i \in 1..Len(db) : /\ db[i].id = last'.payload.reservation_id
                                 /\ db[i].restaurant_id # last'.restaurant_id) =>
         /\ last'.resp.success = FALSE
         /\ db' = db
         /\ last'.type = "update_reservation" =>
              last'.resp.message = "Reservation not found"
    /\ Len(db') >= Len(db)
    /\ \A i \in 1..Len(db) :
         db[i].restaurant_id # last'.restaurant_id => db'[i] = db[i]
    /\ \A i \in (Len(db) + 1)..Len(db') :
         db'[i].restaurant_id = last'.restaurant_id

\* C9: no engine operation crosses a tenant boundary: the reservations of
\* another tenant never count toward the load in check nor show in getStats,
\* update_reservation and cancel_reservation with the id of a reservation of
\* another tenant fail as not found, and no action executed for a tenant
\* changes a record of another.
C9_TenantIsolation == [](last = Idle => ReadsAreScoped) /\ [][WritesAreScoped]_vars

\* Tenant rA, whose room of 10 holds an active party of 5 at 20:00 of a day
\* on which tenant rB holds an active party of 8 at the same time under the
\* same phone, asked to update the reservation of rB and was refused.
C9_Witness ==
  /\ last.type = "update_reservation"
  /\ last.restaurant_id = "rA"
  /\ last.resp.success = FALSE
  /\ \E i, j \in 1..Len(db) :
       /\ db[i].restaurant_id = "rB" /\ db[i].id = last.payload.reservation_id
       /\ db[i].status = "active" /\ db[i].partySize = 8 /\ db[i].time = HHMM(20, 0)
       /\ db[j].restaurant_id = "rA" /\ db[j].status = "active"
       /\ db[j].date = db[i].date /\ db[j].time = db[i].time /\ db[j].phone = db[i].phone
       /\ db[j].partySize + db[i].partySize > Cfg("rA").totalCapacity


(***************************************************************************)
(* C5                                                                      *)
(***************************************************************************)

\* C5: update_reservation of a stored reservation calls the check exactly
\* when the merged date, time or party size differs from the stored one; an
\* update whose changes hold notes and/or table_id only never calls it and
\* is accepted with no policy reason, whatever the load, the closed dates
\* and the shifts are.
C5_ChecksOnlyOnChange ==
  [][ (last = Idle /\ last'.type = "update_reservation"
       /\ Resolved(db, last'.restaurant_id, last'.payload) # 0) =>
        LET i == Resolved(db, last'.restaurant_id, last'.payload)
            ch == last'.payload.changes
        IN /\ last'.checked <=> \/ MergedDate(db, i, ch) # db[i].date
                                \/ MergedTime(db, i, ch) # db[i].time
                                \/ MergedSize(db, i, ch) # db[i].partySize
           /\ (ch.date.kind = "none" /\ ch.time = NoTime /\ ch.party_size = 0) =>
                /\ ~last'.checked
                /\ last'.resp.success
                /\ last'.resp.reason = NoVal
                /\ last'.resp.availability = NoVal
                /\ last'.resp.alternatives = <<>>
    ]_vars

\* An update of the notes alone was accepted without a check although the
\* check, run for the reservation as it is stored and with its own seats
\* left out, refuses it: the room is overbooked.
C5_Witness ==
  /\ last.type = "update_reservation"
  /\ last.resp.success
  /\ ~last.checked
  /\ last.payload.changes = ChangeSet(NoDateText, NoTime, 0, NoVal, "late")
  /\ LET i == Resolved(db, last.restaurant_id, last.payload)
     IN /\ i # 0
        /\ db[i].notes = "late"
        /\ check(db, settings, last.restaurant_id, db[i].date, db[i].time,
                 db[i].partySize, db[i].id).reason = "capacity"

(***************************************************************************)
(* C8                                                                      *)
(***************************************************************************)

\* The slot and the date a tab asks for.
TabSlot(tab) == SlotOf(Cfg(tab.restaurant_id), tab.payload.time)
TabDate(tab) == AskedDate(tab.payload)

\* Two finished create_reservation calls a and b compete: they ask for
\* overlapping windows of one date of one tenant, each of them fits into the
\* store the check of a read, and the two together do not.
Compete(a, b) ==
  LET cfg == Cfg(a.restaurant_id)
      roomB == RoomAt(a.seen, cfg, a.restaurant_id, TabDate(a), TabSlot(b), 0)
  IN /\ a.restaurant_id = b.restaurant_id
     /\ TabDate(a) = TabDate(b)
     /\ RulesPass(cfg, TabDate(a), TabSlot(a), a.payload.party_size)
     /\ RulesPass(cfg, TabDate(b), TabSlot(b), b.payload.party_size)
     /\ WindowsOverlap(TabSlot(a), TabSlot(b), WindowLen(cfg))
     /\ RoomAt(a.seen, cfg, a.restaurant_id, TabDate(a), TabSlot(a), 0)
          >= a.payload.party_size
     /\ roomB >= b.payload.party_size
     /\ roomB < a.payload.party_size + b.payload.party_size

DefaultLimit == 2

\* The number of days from the requested date on which the scans stop.
ScanDays == 7

\* The requested times: the probes, and one after the last shift.
AskedTimes == ProbeTimes \cup {HHMM(23, 10)}

\* A room with the tables T1 and T3 only.
SmallRoom == SubSeq(Tables, 2, 3)

\* The days from date to the date of an alternative; -1 when the alternative
\* lies before the date or more than ScanDays after it.
DaysAfter(date, later) ==
  IF \E k \in 0..ScanDays : addDaysLocal(date, k) = later
  THEN CHOOSE k \in 0..ScanDays : addDaysLocal(date, k) = later
  ELSE -1

\* The minutes from the requested date and slot to an alternative, negative
\* when the alternative is the earlier one.
Offset(date, slot, a) == DaysAfter(date, a.date) * 1440 + MinuteOf(a.time) - slot

\* A list of alternatives in the order of their distance from the requested
\* date and slot, the earlier one first of two at the same distance.
NearestFirst(alts, date, slot) ==
  /\ \A i \in 1..Len(alts) : DaysAfter(date, alts[i].date) >= 0
  /\ \A i, j \in 1..Len(alts) :
       i < j =>
         \/ Abs(Offset(date, slot, alts[i])) < Abs(Offset(date, slot, alts[j]))
         \/ /\ Abs(Offset(date, slot, alts[i])) = Abs(Offset(date, slot, alts[j]))
            /\ Offset(date, slot, alts[i]) < Offset(date, slot, alts[j])

\* The lists check returns for one tenant in the store as it is.
CheckListsNearestFirst(t) ==
  \A date \in ProbeDates, n \in {5, 8}, ex \in {0, Len(db)} :
    /\ \A time \in AskedTimes :
         LET alts == check(db, settings, t, date, time, n, ex).alternatives
         IN /\ Len(alts) <= 2
            /\ NearestFirst(alts, date, SlotOf(Cfg(t), time))
    /\ Len(check(db, settings, t, date, Garbage, n, ex).alternatives) <= 2

\* The lists suggestAlternativeTimesByTables returns for one tenant, called
\* with its default limit on the store as it is.
TableListsNearestFirst(t) ==
  \A n \in {5, 8}, time \in AskedTimes \cup {Garbage}, room \in {Tables, SmallRoom} :
    LET alts == suggestAlternativeTimesByTables(settings, t, OpenDay, time, n, room, db,
                                                DefaultLimit)
    IN /\ Len(alts) <= 2
       /\ time # Garbage => NearestFirst(alts, OpenDay, SlotOf(Cfg(t), time))

ShiftGrid(cfg, shift) ==
  LET start == MinuteOf(cfg.openingHours[shift].start)
      latest == MinuteOf(cfg.openingHours[shift].end) - cfg.standardDurationMin
  IN IF latest < start THEN {}
     ELSE {start + k * cfg.slotIntervalMin : k \in 0..((latest - start) \div cfg.slotIntervalMin)}

\* The candidates of a request: the start times of the matched shift other
\* than the requested slot at which the capacity rule passes on the date.
Candidates(d, cfg, restaurantId, date, slot, n) ==
  {c \in ShiftGrid(cfg, MatchedShift(cfg, slot)) :
     /\ c # slot
     /\ cfg.totalCapacity - LoadOn(d, cfg, restaurantId, date, c, 0) >= n}

\* The rank of a candidate: its distance from the slot, the earlier one of
\* two equally distant candidates first.
Nearness(c, slot) == 2 * Abs(c - slot) + (IF c > slot THEN 1 ELSE 0)

\* The times of a list of alternatives, as minutes of the day.
MinutesOf(alts) == {MinuteOf(alts[i].time) : i \in 1..Len(alts)}

\* alts holds the (up to) 2 nearest members of the set Q on the date, and
\* nothing else.
TwoNearest(alts, Q, date, slot) ==
  /\ Len(alts) = Min(2, Cardinality(Q))
  /\ Cardinality(MinutesOf(alts)) = Len(alts)
  /\ \A i \in 1..Len(alts) :
       /\ alts[i].date = date
       /\ alts[i].time = minutesToHHMM(MinuteOf(alts[i].time))
       /\ MinuteOf(alts[i].time) \in Q
       /\ \A q \in Q \ MinutesOf(alts) :
            Nearness(MinuteOf(alts[i].time), slot) < Nearness(q, slot)

\* C11: when a check_availability or a create_reservation is refused with
\* reason turn_end or capacity, its alternatives are exactly the (up to) 2
\* nearest candidates: start times of the matched shift that end by the end
\* of the shift, differ from the slot-rounded requested time and pass the
\* capacity rule on the requested date.  None lies outside the shift or on
\* another date, and no candidate nearer than a returned one is left out.
C11_SmartAlternativesExact ==
  (/\ last.type \in {"check_availability", "create_reservation"}
   /\ last.resp.reason \in {"turn_end", "capacity"}) =>
    LET cfg == Cfg(last.restaurant_id)
        slot == SlotOf(cfg, last.payload.time)
    IN TwoNearest(last.resp.alternatives,
                  Candidates(db, cfg, last.restaurant_id, AskedDate(last.payload), slot,
                             last.payload.party_size),
                  AskedDate(last.payload), slot)

\* A check_availability was refused for capacity with one alternative only,
\* although a start time of the shift lies nearer to the request: there the
\* capacity rule fails.
C11_Witness ==
  /\ last.type = "check_availability"
  /\ last.resp.reason = "capacity"
  /\ Len(last.resp.alternatives) = 1
  /\ LET cfg == Cfg(last.restaurant_id)
         slot == SlotOf(cfg, last.payload.time)
     IN \E c \in ShiftGrid(cfg, MatchedShift(cfg, slot)) :
          /\ c # slot
          /\ Abs(c - slot) < Abs(MinuteOf(last.resp.alternatives[1].time) - slot)
          /\ cfg.totalCapacity
               - LoadOn(db, cfg, last.restaurant_id, AskedDate(last.payload), c, 0)
               < last.payload.party_size

(***************************************************************************)
(* C12                                                                     *)
(***************************************************************************)

\* The payload passes the field and date validation of check_availability,
\* so that AvailabilityService.check is called with it (whatever its time).
ReachesCheck(payload) ==
  /\ payload.date.kind # "none" /\ payload.time # NoTime /\ payload.party_size # 0
  /\ AskedDate(payload) # NoDate

\* C12: under every configuration, on a date that is not closed and at any
\* requested time, inside or outside the shifts, parsable or not, check
\* answers a party larger than maxPartySize with not_available, reason
\* max_party and an empty list of alternatives.
C12_MaxPartyNoAlternatives ==
  (/\ last.type = "check_availability"
   /\ ReachesCheck(last.payload)
   /\ ~IsClosed(Cfg(last.restaurant_id), AskedDate(last.payload))
   /\ TooLarge(Cfg(last.restaurant_id), last.payload.party_size)) =>
    /\ last.resp.success
    /\ last.resp.availability = "not_available"
    /\ last.resp.reason = "max_party"
    /\ last.resp.alternatives = <<>>

\* A party of 7, within the default maximum but above the stored one, was
\* refused on an open date at a time that lies in no shift.
C12_Witness ==
  /\ last.type = "check_availability"
  /\ last.resp.reason = "max_party"
  /\ last.payload.party_size <= RESERVATION_CONFIG.maxPartySize
  /\ OutOfHours(Cfg(last.restaurant_id), SlotOf(Cfg(last.restaurant_id), last.payload.time))

(***************************************************************************)
(* C13                                                                     *)
(***************************************************************************)

\* The start times of all the shifts of a day.
DayGrid(cfg) == UNION {ShiftGrid(cfg, k) : k \in 1..Len(cfg.openingHours)}

\* The slots of a date, from minute from on, that lie in a shift, end by its
\* end and pass the capacity rule for a party of n.
OpenSlots(d, cfg, restaurantId, date, n, from) ==
  {t \in DayGrid(cfg) :
     /\ t >= from
     /\ cfg.totalCapacity - LoadOn(d, cfg, restaurantId, date, t, 0) >= n}

\* The minute the same-day search starts at: the requested slot, or the
\* start of the day when the requested time does not parse.
SearchFrom(slot) == IF IsFinite(slot) THEN slot ELSE 0

\* A call refused because the requested time lies in no shift.
OutOfHoursCall ==
  /\ last.type \in {"check_availability", "create_reservation"}
  /\ last.resp.reason = "out_of_hours"

\* The open slots of the requested date of the call in flight.
SameDaySlots ==
  LET cfg == Cfg(last.restaurant_id)
  IN OpenSlots(db, cfg, last.restaurant_id, AskedDate(last.payload),
               last.payload.party_size, SearchFrom(SlotOf(cfg, last.payload.time)))

\* An alternative of the call in flight is an open slot of the requested
\* date at or after the requested time, or an open slot of one of the 7
\* following days that is not a closed date.
OpenSlotOffered(a) ==
  LET cfg == Cfg(last.restaurant_id)
      k == DaysAfter(AskedDate(last.payload), a.date)
  IN /\ a.time = minutesToHHMM(MinuteOf(a.time))
     /\ \/ k = 0 /\ MinuteOf(a.time) \in SameDaySlots
        \/ /\ k \in 1..ScanDays
           /\ ~IsClosed(cfg, a.date)
           /\ MinuteOf(a.time) \in OpenSlots(db, cfg, last.restaurant_id, a.date,
                                             last.payload.party_size, 0)

\* The alternatives of the call in flight that are on the requested date.
OnAskedDate ==
  {i \in 1..Len(last.resp.alternatives) :
     last.resp.alternatives[i].date = AskedDate(last.payload)}

\* C13 as the design words it: the later days are scanned only if the requested
\* date gave no slot, so that one same-day slot keeps every alternative on
\* the requested date.
C13_LaterDaysOnlyIfNone ==
  OutOfHoursCall =>
    /\ \A i \in 1..Len(last.resp.alternatives) : OpenSlotOffered(last.resp.alternatives[i])
    /\ SameDaySlots # {} => Cardinality(OnAskedDate) = Len(last.resp.alternatives)

\* C13: for reason out_of_hours every alternative is an open slot (in a
\* shift, ending by its end, passing the capacity rule) of the requested
\* date at or after the requested time, or an open slot of one of the 7
\* following days that is not closed.  The later days are scanned only if
\* the requested date gave fewer than 2 slots: with two or more same-day
\* slots every alternative is on the requested date, with fewer all of them
\* are returned and a list shorter than 2 means that no following day has an
\* open slot.
C13_LaterDaysOnlyIfFewerThanTwo ==
  OutOfHoursCall =>
    LET cfg == Cfg(last.restaurant_id)
        alts == last.resp.alternatives
    IN /\ \A i \in 1..Len(alts) : OpenSlotOffered(alts[i])
       /\ Cardinality(OnAskedDate) = Min(2, Cardinality(SameDaySlots))
       /\ Len(alts) <= 2
       /\ Len(alts) < 2 =>
            \A k \in 1..ScanDays :
              LET day == addDaysLocal(AskedDate(last.payload), k)
              IN \/ IsClosed(cfg, day)
                 \/ OpenSlots(db, cfg, last.restaurant_id, day,
                              last.payload.party_size, 0) = {}

\* A check_availability before the evening shift found one open slot on the
\* requested date and filled the list with a slot of a following day.
C13_Witness ==
  /\ OutOfHoursCall
  /\ last.type = "check_availability"
  /\ Cardinality(SameDaySlots) = 1
  /\ Len(last.resp.alternatives) = 2
  /\ Cardinality(OnAskedDate) = 1

(***************************************************************************)
(* C14                                                                     *)
(***************************************************************************)

\* A call refused because the requested date is closed.
ClosedCall ==
  /\ last.type \in {"check_availability", "create_reservation"}
  /\ last.resp.reason = "closed"

\* The slot of the call in flight.
CallSlot == SlotOf(Cfg(last.restaurant_id), last.payload.time)

\* The numbers k in 1..7 of the days after the requested date that are not
\* closed and pass the capacity rule at the requested slot.
OpenDaysAhead ==
  LET cfg == Cfg(last.restaurant_id)
  IN {k \in 1..ScanDays :
        LET day == addDaysLocal(AskedDate(last.payload), k)
        IN /\ ~IsClosed(cfg, day)
           /\ cfg.totalCapacity - LoadOn(db, cfg, last.restaurant_id, day, CallSlot, 0)
                >= last.payload.party_size}

\* alts holds the (up to) 2 earliest of the days ahead, in ascending order,
\* each at the requested slot.
EarliestOpenDays(alts) ==
  LET ahead(i) == DaysAfter(AskedDate(last.payload), alts[i].date)
  IN /\ Len(alts) = Min(2, Cardinality(OpenDaysAhead))
     /\ \A i \in 1..Len(alts) :
          /\ ahead(i) \in OpenDaysAhead
          /\ alts[i].time = minutesToHHMM(CallSlot)
          /\ \A j \in 1..Len(alts) : i < j => ahead(i) < ahead(j)
          /\ \A k \in OpenDaysAhead : k < ahead(i) => \E j \in 1..Len(alts) : ahead(j) = k

\* C14 as the design words it: for reason closed the alternatives are the
\* (up to) 2 earliest of the 7 following days that are not closed and pass
\* the capacity rule at the requested slot, in ascending order, whatever the
\* requested time.
C14_EarliestOpenDates ==
  ClosedCall => EarliestOpenDays(last.resp.alternatives)

\* C14: for reason closed, when the slot-rounded requested time lies in a
\* shift, the alternatives are at most 2 dates strictly after the requested
\* date and within the next 7 days, none of them closed, each at the
\* requested slot and passing the capacity rule on its date, in ascending
\* order, the earliest such dates being the ones returned; when the
\* requested time lies in no shift (or does not parse) the list is empty.
C14_EarliestOpenDatesInHours ==
  ClosedCall =>
    IF OutOfHours(Cfg(last.restaurant_id), CallSlot)
    THEN last.resp.alternatives = <<>>
    ELSE EarliestOpenDays(last.resp.alternatives)

\* A check_availability on a closed date, at a time within a shift, was
\* answered with two dates, and a day before each of them is left out:
\* one because it is closed, one because it is full at that time.
C14_Witness ==
  /\ ClosedCall
  /\ last.type = "check_availability"
  /\ Len(last.resp.alternatives) = 2
  /\ LET cfg == Cfg(last.restaurant_id)
         first == DaysAfter(AskedDate(last.payload), last.resp.alternatives[1].date)
     IN /\ \E k \in 1..(first - 1) :
             IsClosed(cfg, addDaysLocal(AskedDate(last.payload), k))
        /\ \E k \in 1..(first - 1) :
             /\ ~IsClosed(cfg, addDaysLocal(AskedDate(last.payload), k))
             /\ k \notin OpenDaysAhead


(***************************************************************************)
(* C15                                                                     *)
(***************************************************************************)

\* The requested time of the call in flight as minutes, NaN if unparsable.
CallRaw == parseTimeToMinutes(last.payload.time)

\* A check_availability that reached AvailabilityService.check.
CheckedCall == last.type = "check_availability" /\ ReachesCheck(last.payload)

\* C15: check returns normalized_time exactly when the slot-rounded time
\* differs from the parsed requested time, and it is then the two-digit
\* HH:MM form of the rounded time the rules were applied to; when the
\* requested time is on a slot already (or does not parse) normalized_time
\* is absent, whatever the status and the reason.
C15_NormalizedTimeIffRounded ==
  CheckedCall =>
    IF IsFinite(CallRaw) /\ CallSlot # CallRaw
    THEN /\ last.resp.normalized_time # NoTime
         /\ last.resp.normalized_time.hd = 2 /\ last.resp.normalized_time.md = 2
         /\ MinuteOf(last.resp.normalized_time) = CallSlot
    ELSE last.resp.normalized_time = NoTime


(***************************************************************************)
(* C16                                                                     *)
(***************************************************************************)

\* A create_reservation that wrote its record.
CreatedCall == last.type = "create_reservation" /\ last.resp.success

\* C16: a successful create_reservation returns the created record and the
\* normalized time: when slot rounding changed the requested time the
\* normalized_time of the response is present and is the rounded time stored
\* in the created record.
C16_CreateReturnsNormalizedTime ==
  (CreatedCall /\ CallSlot # CallRaw) =>
    /\ Len(last.resp.data) = 1
    /\ MinuteOf(last.resp.data[1].time) = CallSlot
    /\ last.resp.normalized_time = last.resp.data[1].time


(***************************************************************************)
(* C17                                                                     *)
(***************************************************************************)

\* The five reasons of the availability policy.
PolicyReasons == {"closed", "max_party", "out_of_hours", "turn_end", "capacity"}

\* A date or a time that is given and does not parse.
BadDate(date) == date.kind # "none" /\ normalizeDateInput(date, Now) = NoDate
BadTime(time) == time # NoTime /\ ~IsFinite(parseTimeToMinutes(time))

\* The call c has a required field missing or malformed.
Malformed(c) ==
  \/ /\ c.type = "check_availability"
     /\ ~ReachesCheck(c.payload) \/ BadTime(c.payload.time)
  \/ /\ c.type = "create_reservation"
     /\ ~ReachesCheck(c.payload) \/ c.payload.name = "" \/ BadTime(c.payload.time)
  \/ /\ c.type = "update_reservation"
     /\ \/ c.payload.reservation_id = 0
        \/ BadDate(c.payload.changes.date)
        \/ BadTime(c.payload.changes.time)

\* C17: a check_availability, create_reservation or update_reservation with
\* a required field missing, or with a date or a time that does not parse,
\* is answered with a validation failure: success=false, none of the five
\* policy reasons, and the reservation store left as it was.
C17_MalformedIsValidationFailure ==
  [][(last = Idle /\ last' # Idle /\ Malformed(last')) =>
       /\ ~last'.resp.success
       /\ last'.resp.reason \notin PolicyReasons
       /\ db' = db]_vars


(***************************************************************************)
(* C18                                                                     *)
(***************************************************************************)

\* The requests the table functions are probed with in every store reached.
TableTimes == {HHMM(20, 0), HHMM(20, 10), HHMM(21, 0), HHMM(22, 30), HHMM(23, 50)}
TableSizes == {1, 2, 6, 7, 8, 9}
TableDates == {OpenDay, LaterDay}

\* 1 for a stool, else the stated capacity.
EffectiveCapacity(x) == IF x.kind = "stool" THEN 1 ELSE x.capacity

\* The tables of a list, as a set.
TablesOf(list) == {list[i] : i \in 1..Len(list)}

\* An active reservation of the tenant and the date, other than ex, is
\* assigned to table x over a window that overlaps the one starting at slot.
Booked(d, cfg, restaurantId, date, slot, x, ex) ==
  \E i \in ActiveOn(d, restaurantId, date) :
    /\ d[i].id # ex
    /\ d[i].table_id = x.id
    /\ WindowsOverlap(slot, MinuteOf(d[i].time), WindowLen(cfg))

\* The tables of the room that qualify for a request.
Qualifying(d, cfg, restaurantId, date, slot, n, ex) ==
  {x \in TablesOf(Tables) :
     /\ x.restaurant_id = restaurantId
     /\ x.status # "blocked"
     /\ EffectiveCapacity(x) >= n
     /\ ~Booked(d, cfg, restaurantId, date, slot, x, ex)}

\* C18: for a requested time that parses, listAvailableTablesForReservation
\* returns exactly the tables supplied that belong to the tenant, are not
\* blocked, have an effective capacity of at least the party size and have
\* no active reservation of the tenant and the date, other than the excluded
\* one, assigned to them over a window that overlaps the window of the
\* slot-rounded requested time; each of them once.
C18_ListAvailableExact ==
  last = Idle =>
    \A t \in Tenants, date \in TableDates, time \in TableTimes, n \in TableSizes,
       ex \in 0..Len(db) :
      LET list == listAvailableTablesForReservation(settings, t, date, time, n, Tables,
                                                    db, ex)
      IN /\ TablesOf(list) = Qualifying(db, Cfg(t), t, date, SlotOf(Cfg(t), time), n, ex)
         /\ Len(list) = Cardinality(TablesOf(list))


(***************************************************************************)
(* C19                                                                     *)
(***************************************************************************)

\* The room with table T3 back in service and the tables listed in the
\* opposite order: Mesa 3 comes before Mesa 1, both seat 6.
ReopenedRoom ==
  [i \in 1..Len(Tables) |-> [Tables[Len(Tables) + 1 - i] EXCEPT !.status = "free"]]

\* The rooms the table functions are called with.
Rooms == {Tables, ReopenedRoom}

\* The place of a table in a room.
PlaceIn(room, x) == CHOOSE i \in 1..Len(room) : room[i] = x

\* x is no larger than y and, when they seat the same, does not come after
\* it by name.
SmallestThenName(x, y) ==
  \/ EffectiveCapacity(x) < EffectiveCapacity(y)
  \/ /\ EffectiveCapacity(x) = EffectiveCapacity(y)
     /\ NameRank(x.name) <= NameRank(y.name)

\* C19: pickTableForReservation returns none exactly when
\* listAvailableTablesForReservation is empty for the same arguments;
\* otherwise it returns the first entry of that list, an available table of
\* minimal effective capacity and, among the available tables of that
\* capacity, the first by name.
C19_PickIsSmallestAvailable ==
  last = Idle =>
    \A t \in Tenants, time \in TableTimes \cup {Garbage}, n \in TableSizes,
       ex \in 0..Len(db), room \in Rooms :
      LET list == listAvailableTablesForReservation(settings, t, OpenDay, time, n, room,
                                                    db, ex)
          pick == pickTableForReservation(settings, t, OpenDay, time, n, room, db, ex)
      IN /\ pick = NoTable <=> list = <<>>
         /\ list # <<>> =>
              /\ pick = list[1]
              /\ \A x \in TablesOf(list) : SmallestThenName(pick, x)

\* With a booking at table T1 in the store: at an hour when T1 is free again
\* a party of 6 gets Mesa 1 although Mesa 3, which seats 6 too, comes first
\* in the room; at the hour of the booking it gets Mesa 3; a party of 9 gets
\* no table.
C19_Witness ==
  /\ last = Idle
  /\ \E i \in 1..Len(db) : db[i].table_id = "T1" /\ db[i].status = "active"
  /\ \E time \in TableTimes :
       LET list == listAvailableTablesForReservation(settings, "rA", OpenDay, time, 6,
                                                     ReopenedRoom, db, 0)
           pick == pickTableForReservation(settings, "rA", OpenDay, time, 6, ReopenedRoom,
                                           db, 0)
       IN /\ pick.id = "T1"
          /\ \E x \in TablesOf(list) :
               /\ EffectiveCapacity(x) = EffectiveCapacity(pick)
               /\ PlaceIn(ReopenedRoom, x) < PlaceIn(ReopenedRoom, pick)
  /\ \E time \in TableTimes :
       pickTableForReservation(settings, "rA", OpenDay, time, 6, ReopenedRoom, db, 0).id
         = "T3"
  /\ pickTableForReservation(settings, "rA", OpenDay, HHMM(20, 0), 9, ReopenedRoom, db, 0)
       = NoTable


(***************************************************************************)
(* C20                                                                     *)
(***************************************************************************)

\* The phones of the guests and the instants getStats is asked at: noon of
\* the day before, the minute of a booking, the minute after, later ones.
Phones == {"600", "700"}
Nows ==
  {Now, Instant(OpenDay, 20 * 60), Instant(OpenDay, 20 * 60 + 1), Instant(OpenDay, 21 * 60),
   Instant(LaterDay, 0), Instant(LaterDay, 20 * 60 + 1)}

\* A date and a minute of the day on one scale that grows with time.
Moment(date, min) == ((date[1] * 12 + date[2]) * 31 + date[3]) * 1440 + min

\* The places in the store of the active reservations of the tenant with
\* the phone that start at or after now.
Upcoming(d, restaurantId, phone, now) ==
  {i \in 1..Len(d) :
     /\ d[i].restaurant_id = restaurantId
     /\ d[i].phone = phone
     /\ d[i].status = "active"
     /\ Moment(d[i].date, MinuteOf(d[i].time)) >= Moment(now.date, now.min)}

\* What getStats returns is the list of exactly those reservations, by date
\* and then time, with its length as count.
StatsExact(d, restaurantId, phone, now) ==
  LET s == getStats(d, restaurantId, phone, now)
      list == s.reservations
  IN /\ {list[i] : i \in 1..Len(list)} = {d[i] : i \in Upcoming(d, restaurantId, phone, now)}
     /\ Len(list) = Cardinality(Upcoming(d, restaurantId, phone, now))
     /\ \A i, j \in 1..Len(list) :
          i < j => Moment(list[i].date, MinuteOf(list[i].time))
                     <= Moment(list[j].date, MinuteOf(list[j].time))
     /\ s.count = Len(list)
     /\ s.hasActive <=> s.count > 0

\* C20: getStats(tenant, phone, now) returns exactly the active reservations
\* of the tenant with that phone whose date and time are at or after now, in
\* ascending order of date and then time, count being the length of the list
\* and hasActive being true exactly when count > 0; once a
\* cancel_reservation has succeeded its reservation is in no such list.
C20_StatsAreUpcomingActive ==
  /\ last = Idle =>
       \A t \in Tenants, phone \in Phones, now \in Nows : StatsExact(db, t, phone, now)
  /\ (last.type = "cancel_reservation" /\ last.resp.success) =>
       \A phone \in Phones, now \in Nows :
         \A r \in {getStats(db, last.restaurant_id, phone, now).reservations[i] :
                     i \in 1..getStats(db, last.restaurant_id, phone, now).count} :
           r.id # last.payload.reservation_id

\* Two reservations under one phone, the later one made first, are listed by
\* getStats in the order of their dates; one minute after the first of them
\* has started only the other is left.
C20_Witness ==
  /\ last = Idle
  /\ Len(db) = 2
  /\ LET s == getStats(db, "rA", "600", Now)
     IN /\ s.count = 2
        /\ s.reservations[1] = db[2] /\ s.reservations[2] = db[1]
        /\ s.reservations[1].date # s.reservations[2].date
  /\ getStats(db, "rA", "600", Instant(OpenDay, 20 * 60)).count = 2
  /\ getStats(db, "rA", "600", Instant(OpenDay, 20 * 60 + 1)).reservations = <<db[1]>>

\* A cancel_reservation has succeeded on a reservation of a guest who has
\* another one: getStats lists that one only.
C20_CancelledIsGone ==
  /\ last.type = "cancel_reservation" /\ last.resp.success
  /\ \E i, j \in 1..Len(db) :
       /\ db[i].id = last.payload.reservation_id
       /\ db[i].status # "active"
       /\ db[j].phone = db[i].phone
       /\ getStats(db, "rA", db[i].phone, Now).reservations = <<db[j]>>


(***************************************************************************)
(* C21                                                                     *)
(***************************************************************************)

\* The places of the subscriptions of tenant t whose handle was not called.
LiveSubs(t) ==
  {i \in 1..Len(handles) : handles[i].restaurant_id = t /\ handles[i].called = 0}

\* The listeners of the live subscriptions of tenant t.
LiveListeners(t) == {handles[i].listener : i \in LiveSubs(t)}

\* The listeners of the live subscriptions of tenant t that no handle of the
\* same tenant and the same function has been called on since they were
\* made.
Registered(t) ==
  {handles[i].listener :
     i \in {j \in LiveSubs(t) :
              \A k \in 1..Len(handles) :
                (/\ handles[k].restaurant_id = t
                 /\ handles[k].listener = handles[j].listener
                 /\ handles[k].called # 0) => handles[k].called < handles[j].since}}

\* A step that saves the settings of tenant t and calls exactly the
\* listeners in S, each once.
SavesAndCalls(t, S) ==
  /\ \A u \in Tenants \ {t} : settings'[u] = settings[u]
  /\ \A l \in Listeners : ticks'[l] = ticks[l] + (IF l \in S THEN 1 ELSE 0)

\* C21 as the design words it: updateReservationSettings calls the listener
\* of every subscription of the tenant whose own unsubscribe handle was not
\* called, and no other listener.
C21_EverySubscriptionNotified ==
  [][handles' = handles => \E t \in Tenants : SavesAndCalls(t, LiveListeners(t))]_vars

\* C21: updateReservationSettings calls, before it returns, every listener
\* registered for the tenant, once, and no listener registered only for
\* another tenant.  The unsubscribe handle of a subscription removes the
\* listener function of that subscription from the tenant: subscriptions of
\* other functions, and of the same function for another tenant, keep being
\* notified on later updates, while a function subscribed twice for one
\* tenant is registered once and is removed by either handle.
C21_RegisteredListenersNotified ==
  /\ [](\A t \in Tenants : listenersByRestaurant[t] = Registered(t))
  /\ [][handles' = handles => \E t \in Tenants : SavesAndCalls(t, Registered(t))]_vars

\* Two listeners subscribed for rA, the first one unsubscribed, and the
\* settings of rA saved since: the second listener was called, the first was
\* not.
C21_Witness ==
  /\ Len(handles) = 2
  /\ handles[1].restaurant_id = "rA" /\ handles[2].restaurant_id = "rA"
  /\ handles[1].listener # handles[2].listener
  /\ handles[1].called # 0 /\ handles[2].called = 0
  /\ ticks[handles[1].listener] = 0
  /\ ticks[handles[2].listener] = 1


(***************************************************************************)
(* C22                                                                     *)
(***************************************************************************)

\* The overrides stored for a tenant have the field f: something is stored,
\* it parses, and the field is in it.
HasStored(t, f) == "unparsable" \notin DOMAIN settings[t] /\ f \in DOMAIN settings[t]

\* The domain of each sanitized field.
InDomain(f, v) ==
  CASE f = "totalCapacity" -> v # NaN /\ v >= 0
    [] f = "maxPartySize" -> v # NaN /\ v >= 1
    [] f = "standardDurationMin" -> v # NaN /\ v >= 1
    [] f = "bufferMin" -> v # NaN /\ v >= 0
    [] f = "slotIntervalMin" -> v # NaN /\ v >= 1
    [] f = "slotRounding" -> v \in {"nearest", "floor", "ceil"}
    [] OTHER -> TRUE

\* C22: whatever is stored for a tenant (nothing, a string that does not
\* parse, numbers that are not finite or lie outside their domain, an unknown
\* rounding mode), getReservationSettings returns a configuration with
\* totalCapacity >= 0, maxPartySize >= 1, standardDurationMin >= 1,
\* bufferMin >= 0, slotIntervalMin >= 1 and slotRounding one of nearest,
\* floor and ceil, in which every stored field that is in its domain is kept
\* as stored and every other field has its default.
C22_SettingsAlwaysSane ==
  \A t \in Tenants :
    LET cfg == getReservationSettings(settings, t)
    IN /\ DOMAIN cfg = DOMAIN RESERVATION_CONFIG
       /\ \A f \in DOMAIN cfg : InDomain(f, cfg[f])
       /\ \A f \in DOMAIN cfg :
            cfg[f] = IF HasStored(t, f) /\ InDomain(f, settings[t][f])
                     THEN settings[t][f]
                     ELSE RESERVATION_CONFIG[f]

\* The settings form has stored, for rA, a capacity of 0 and a rounding mode
\* that does not exist: the capacity is kept, the rounding mode is the
\* default one; what is stored for rB does not parse.
C22_Witness ==
  /\ HasStored("rA", "totalCapacity") /\ settings["rA"].totalCapacity = 0
  /\ getReservationSettings(settings, "rA").totalCapacity = 0
  /\ HasStored("rA", "slotRounding") /\ settings["rA"].slotRounding = "up"
  /\ getReservationSettings(settings, "rA").slotRounding = RESERVATION_CONFIG.slotRounding
  /\ settings["rB"] = Unparsable


\* A text that names a time of day: one or two hour digits for an hour in
\* 0..23 and, when a ":MM" part is written, a minute in 0..59.
ValidTime(text) ==
  /\ text.hd \in {1, 2} /\ text.h \in 0..23
  /\ text.md # 0 => text.m \in 0..59

\* C23: formatting the parse of a valid time text gives the zero-padded HH:MM
\* of the same hour and minute (minute 0 when none was written); parsing the
\* formatted text of an integer m in 0..1439 gives m back; and a text with an
\* hour above 23, a minute above 59 or nothing in it parses to the invalid
\* marker.
C23_RoundTrip ==
  /\ (last.type = "minutesToHHMM" /\ ~last.first /\ ValidTime(last.from))
       => last.text = HHMM(last.from.h, IF last.from.md = 0 THEN 0 ELSE last.from.m)
  /\ (last.type = "parseTimeToMinutes" /\ ~last.first /\ last.from \in 0..1439)
       => last.min = last.from
  /\ (last.type = "parseTimeToMinutes" /\ last.first /\ ~ValidTime(last.text))
       => last.min = NaN

\* "9:5" has been parsed and formatted as "09:05".
C23_Witness ==
  /\ last.type = "minutesToHHMM" /\ ~last.first
  /\ last.from = TimeStr(1, 9, 1, 5)
  /\ last.text = HHMM(9, 5)


\* C24: for a finite m, an interval above 0 and a mode of floor, ceil or
\* nearest, roundToSlot gives a multiple of the interval, gives a multiple of
\* the interval back unchanged, and applied to its own result gives that
\* result again; for an interval of 0 or less it gives m back.
C24_RoundToSlotIdempotent ==
  (last.type = "roundToSlot" /\ IsFinite(last.min)) =>
    /\ last.interval > 0 =>
         /\ last.slot % last.interval = 0
         /\ last.min % last.interval = 0 => last.slot = last.min
         /\ ~last.first => last.slot = last.min
    /\ last.interval <= 0 => last.slot = last.min

\* 52 with slots of 15 minutes went to 45 under "nearest", and rounding 45
\* again left it at 45.
C24_Witness ==
  /\ last.type = "roundToSlot" /\ ~last.first
  /\ last.from = 52 /\ last.interval = 15 /\ last.mode = "nearest"
  /\ last.min = 45 /\ last.slot = 45


(***************************************************************************)
(* C25                                                                     *)
(***************************************************************************)

\* The active reservations of a tenant and date whose window
\* [time, time + duration + buffer) covers the minute.
CoveringAt(d, cfg, restaurantId, date, minute) ==
  {i \in ActiveOn(d, restaurantId, date) :
     /\ MinuteOf(d[i].time) <= minute
     /\ minute < MinuteOf(d[i].time) + WindowLen(cfg)}

\* The minutes at which the number of seated guests can rise: the minutes at
\* which a stored window starts.  Between two of them no window begins, so
\* the highest load of a day is met at one of them.
WindowStarts(d) == {MinuteOf(d[i].time) : i \in 1..Len(d)}

\* C25: with one writer and the stored configuration left as it is, after
\* any sequence of create_reservation, update_reservation and
\* cancel_reservation with positive party sizes, for every tenant, date and
\* minute of the day the party sizes of the active reservations whose window
\* covers the minute add up to at most totalCapacity.
C25_SeatedWithinCapacity ==
  \A t \in Tenants, i \in 1..Len(db), minute \in WindowStarts(db) :
    SumSizes(CoveringAt(db, Cfg(t), t, db[i].date, minute), db) <= Cfg(t).totalCapacity

\* Two active reservations of one tenant fill the room to the last seat at a
\* minute both windows cover, after an update_reservation was accepted.
C25_Witness ==
  /\ last.type = "update_reservation" /\ last.resp.success
  /\ \E i, j \in 1..Len(db) :
       /\ i < j
       /\ j \in CoveringAt(db, Cfg("rA"), "rA", db[i].date, MinuteOf(db[j].time))
       /\ i \in CoveringAt(db, Cfg("rA"), "rA", db[i].date, MinuteOf(db[j].time))
       /\ MinuteOf(db[i].time) # MinuteOf(db[j].time)
       /\ db[i].partySize + db[j].partySize = Cfg("rA").totalCapacity


(***************************************************************************)
(* C26                                                                     *)
(***************************************************************************)

\* The answer of check for an alternative of the call just answered: the
\* date and time of the alternative, the party size of the call, no
\* reservation excluded, the store and the settings as they are.
Recheck(alt) ==
  check(db, settings, last.restaurant_id, alt.date, alt.time, last.payload.party_size, 0)

\* C26: every alternative {date, time} that check returned, whatever the
\* reason, is bookable: check called again with that date and time and the
\* same party size, on the same store and configuration, answers available.
C26_AlternativesBookable ==
  last.type \in {"check_availability", "create_reservation"} =>
    \A i \in 1..Len(last.resp.alternatives) :
      Recheck(last.resp.alternatives[i]).status = "available"


(***************************************************************************)
(* C27                                                                     *)
(***************************************************************************)

\* The step is an accepted update_reservation whose changes leave out the
\* field: the notes or the table id.
UpdateOmitting(field) ==
  /\ last = Idle
  /\ last'.type = "update_reservation" /\ last'.resp.success
  /\ last'.payload.changes[field] = NoVal

\* The position of the reservation the update is for.
Updated == findIndex(db, last'.restaurant_id, last'.payload.reservation_id)

\* C27: an accepted update_reservation overrides only the fields its changes
\* supply: when the changes leave out the notes or the table id, the stored
\* notes or table id of the reservation stay as they were; its id, name,
\* phone, status and creation timestamp stay as they were in every accepted
\* update.
C27_UpdateKeepsOmitted ==
  [][ /\ UpdateOmitting("notes") => db'[Updated].notes = db[Updated].notes
      /\ UpdateOmitting("table_id") => db'[Updated].table_id = db[Updated].table_id
      /\ (last = Idle /\ last'.type = "update_reservation" /\ last'.resp.success) =>
           /\ db'[Updated].id = db[Updated].id
           /\ db'[Updated].name = db[Updated].name
           /\ db'[Updated].phone = db[Updated].phone
           /\ db'[Updated].status = db[Updated].status
           /\ db'[Updated].createdAt = db[Updated].createdAt ]_vars


(***************************************************************************)
(* C28                                                                     *)
(***************************************************************************)

\* C28: every stored reservation has a party size of at least 1 and at most
\* maxPartySize, and a create_reservation or update_reservation that asks
\* for a party size of zero or less is refused.
C28_PartySizesPositive ==
  /\ \A i \in 1..Len(db) :
       db[i].partySize \in 1..Cfg(db[i].restaurant_id).maxPartySize
  /\ (last.type = "create_reservation" /\ last.payload.party_size <= 0)
       => ~last.resp.success
  /\ (last.type = "update_reservation" /\ last.payload.changes.party_size < 0)
       => ~last.resp.success


(***************************************************************************)
(* C29                                                                     *)
(***************************************************************************)

\* The minute is the start of a turn: it lies in a shift, start <= m < end,
\* and a stay of standardDurationMin from it ends by the end of that shift.
StartsATurn(cfg, m) ==
  \E k \in 1..Len(cfg.openingHours) :
    /\ MinuteOf(cfg.openingHours[k].start) <= m
    /\ m < MinuteOf(cfg.openingHours[k].end)
    /\ m + cfg.standardDurationMin <= MinuteOf(cfg.openingHours[k].end)

\* C29: with the stored configuration left as it is, after any sequence of
\* create_reservation, update_reservation and cancel_reservation every
\* active reservation has a date that is not in closedDates and a time that
\* is a multiple of slotIntervalMin, lies in a shift and leaves
\* standardDurationMin before the end of that shift.
C29_ActiveReservationsOnPolicy ==
  \A i \in 1..Len(db) :
    db[i].status = "active" =>
      LET cfg == Cfg(db[i].restaurant_id)
      IN /\ ~IsClosed(cfg, db[i].date)
         /\ MinuteOf(db[i].time) % cfg.slotIntervalMin = 0
         /\ StartsATurn(cfg, MinuteOf(db[i].time))

\* An update_reservation asking for 23:10 was accepted and left the active
\* reservation at 23:00, the last slot that leaves a full turn before the
\* long evening ends.
C29_Witness ==
  /\ last.type = "update_reservation" /\ last.resp.success
  /\ last.payload.changes.time = HHMM(23, 10)
  /\ \E i \in 1..Len(db) :
       /\ db[i].id = last.payload.reservation_id
       /\ db[i].status = "active"
       /\ db[i].time = HHMM(23, 0)
       /\ MinuteOf(db[i].time) + Cfg("rA").standardDurationMin + Cfg("rA").slotIntervalMin
            > MinuteOf(Cfg("rA").openingHours[2].end)


(***************************************************************************)
(* C30                                                                     *)
(***************************************************************************)

\* The step is an accepted update_reservation.
AcceptedUpdate ==
  /\ last = Idle
  /\ last'.type = "update_reservation" /\ last'.resp.success

\* The changes of the update supply no date, no time and no party size.
KeepsBooking(changes) ==
  changes.date.kind = "none" /\ changes.time = NoTime /\ changes.party_size = 0

\* C30: an accepted update_reservation whose changes supply no date, time or
\* party size leaves the stored date, time and party size of the reservation
\* as they were, whatever updateReservationSettings did to slotIntervalMin
\* and slotRounding since the reservation was written; and the stored time
\* of a reservation changes only in an update_reservation that ran the
\* availability check and was accepted.
C30_UncheckedUpdateKeepsBooking ==
  [][ /\ (AcceptedUpdate /\ KeepsBooking(last'.payload.changes)) =>
           /\ db'[Updated].date = db[Updated].date
           /\ db'[Updated].time = db[Updated].time
           /\ db'[Updated].partySize = db[Updated].partySize
      /\ \A i \in 1..Len(db) :
           db'[i].time # db[i].time => (AcceptedUpdate /\ last'.checked) ]_vars

====
